---- MODULE Spec2Model ----
(***************************************************************************)
(* OnSecurity MCP server: the request-building / fetch / formatting        *)
(* pipeline behind the MCP tools.                                          *)
(*                                                                         *)
(* The tool handlers and the fetchPage they call are those of              *)
(* src/src/index.ts.  The utility module src/unnamed/part_001 carries a    *)
(* second copy of fetchPage (with the rounds sort / filter validation);    *)
(* it is modelled as fetchPageUtil.  src/src/types.ts is a server of its   *)
(* own, with three tools (get-all-rounds, get-all-findings,                *)
(* get-all-notifications) and a third copy of fetchPage, modelled as       *)
(* fetchPageTypes.  A query string is modelled as the list of              *)
(* URLSearchParams entries (decoded name, value) in append order.          *)
(***************************************************************************)
EXTENDS Integers, Sequences, FiniteSets, Bags, TLC

(***************************************************************************)
(* Bounds of the model.                                                    *)
(***************************************************************************)
\* largest page number a caller requests (0..MaxPage)
MaxPage == 2
\* largest number of optional arguments supplied in one call
MaxArgs == 2
\* largest number of entries of a caller-supplied filters map
MaxFilters == 1
\* largest number of records in an upstream result page
MaxItems == 1
\* largest round / finding / pod id the upstream refers to
MaxId == 2
\* largest number of tasks of one type on the page get-platform-tasks
\* resolves pods for
MaxTasks == 2
\* largest number of nested targets of a round
MaxTargets == 3
\* largest character code of an assessment name
MaxChar == 2
\* largest number of hours of an estimate or of one time log
MaxHours == 3
\* largest number of nested time logs of a round
MaxLogs == 3
\* largest number of fields missing from one entity
MaxAbsent == 2
\* largest number of free-text fields of a block given a text of chosen length
MaxFields == 2
\* how far the chosen text lengths range beyond 0 and around the cut
MaxOver == 1
\* largest number of sessions the HTTP shell hands out
MaxSessions == 2
\* largest number of handlers of the HTTP shell suspended at an await
MaxWaiting == 2
MaxEntries == 2

(***************************************************************************)
(* JavaScript values: undefined, null, number, string, boolean, object.    *)
(***************************************************************************)
JsNull == [t |-> "null", n |-> 0, s |-> "", b |-> FALSE, m |-> <<>>]
Undef == [t |-> "undef", n |-> 0, s |-> "", b |-> FALSE, m |-> <<>>]
Num(i) == [t |-> "num", n |-> i, s |-> "", b |-> FALSE, m |-> <<>>]
Str(x) == [t |-> "str", n |-> 0, s |-> x, b |-> FALSE, m |-> <<>>]
Bool(x) == [t |-> "bool", n |-> 0, s |-> "", b |-> x, m |-> <<>>]
\* an object used as a map (the filters argument of a tool)
Obj(x) == [t |-> "obj", n |-> 0, s |-> "", b |-> FALSE, m |-> x]

\* JavaScript truthiness, as used by `if (x)`, `x || d` and `!x`
Truthy(v) ==
    CASE v.t = "undef" -> FALSE
      [] v.t = "null" -> FALSE
      [] v.t = "num" -> v.n # 0
      [] v.t = "str" -> v.s # ""
      [] v.t = "bool" -> v.b
      [] v.t = "obj" -> TRUE

\* v.toString() for a number, string or boolean
toString(v) ==
    CASE v.t = "num" -> ToString(v.n)
      [] v.t = "str" -> v.s
      [] v.t = "bool" -> IF v.b THEN "true" ELSE "false"
      [] v.t = "undef" -> "undefined"
      [] v.t = "null" -> "null"

\* a || d
OrElse(v, d) == IF Truthy(v) THEN v ELSE d

(***************************************************************************)
(* A plain object used as a Record<string, value>: the sequence of its own *)
(* entries in the order Object.entries gives them, which is the keys that  *)
(* are array indices in ascending numeric order, then the other keys in    *)
(* the order in which they were first assigned.  Assigning an existing key *)
(* keeps its position.                                                     *)
(***************************************************************************)
Entry(k, v) == [key |-> k, value |-> v]

HasKey(m, k) == \E i \in 1..Len(m) : m[i].key = k

\* a decimal numeral in canonical form: digits, no leading zero
Numeral(k) ==
    /\ Len(k) >= 1
    /\ \A i \in 1..Len(k) : \E d \in 1..10 : SubSeq(k, i, i) = SubSeq("0123456789", d, d)
    /\ Len(k) = 1 \/ SubSeq(k, 1, 1) # "0"

\* the digit c as a number
Digit(c) == CHOOSE d \in 0..9 : SubSeq("0123456789", d + 1, d + 1) = c

\* a < b for canonical numerals
Below(a, b) ==
    \/ Len(a) < Len(b)
    \/ /\ Len(a) = Len(b)
       /\ \E i \in 1..Len(a) :
            /\ SubSeq(a, 1, i - 1) = SubSeq(b, 1, i - 1)
            /\ Digit(SubSeq(a, i, i)) < Digit(SubSeq(b, i, i))

\* a key that is an array index: an integer from 0 to 2^32 - 2
IsIndex(k) == Numeral(k) /\ Below(k, "4294967295")

\* the own entries of a plain object stand in this order
InKeyOrder(m) ==
    \A i, j \in 1..Len(m) :
        i < j => /\ m[i].key # m[j].key
                 /\ IsIndex(m[j].key) => IsIndex(m[i].key) /\ Below(m[i].key, m[j].key)

\* m[k] = v on a plain object.  Assigning to __proto__ calls the setter the
\* object inherits, which stores no own property (and ignores a primitive).
Put(m, k, v) ==
    IF k = "__proto__" THEN m
    ELSE IF HasKey(m, k)
    THEN [i \in 1..Len(m) |-> IF m[i].key = k THEN Entry(k, v) ELSE m[i]]
    ELSE IF IsIndex(k)
    THEN LET ahead == Cardinality({i \in 1..Len(m) : IsIndex(m[i].key) /\ Below(m[i].key, k)})
         IN SubSeq(m, 1, ahead) \o <<Entry(k, v)>> \o SubSeq(m, ahead + 1, Len(m))
    ELSE Append(m, Entry(k, v))

Get(m, k) ==
    IF HasKey(m, k)
    THEN (CHOOSE e \in {m[i] : i \in 1..Len(m)} : e.key = k).value
    ELSE Undef

(***************************************************************************)
(* URLSearchParams: a list of (name, value) entries.                       *)
(***************************************************************************)
Param(nm, val) == [name |-> nm, value |-> val]

\* the values of the entries called nm, in order
Values(q, nm) == SelectSeq(q, LAMBDA e : e.name = nm)

FilterName(k) == "filter[" \o k \o "]"

(***************************************************************************)
(* Program constants.                                                      *)
(***************************************************************************)
validRoundsSortFields ==
    { "name-asc", "start_date-asc", "end_date-asc", "authorisation_date-asc",
      "hours_estimate-asc", "created_at-asc", "updated_at-asc",
      "name-desc", "start_date-desc", "end_date-desc", "authorisation_date-desc",
      "hours_estimate-desc", "created_at-desc", "updated_at-desc" }

PROHIBITED_FILTER_KEYS ==
    { "date", "date-eq", "date-mte", "date-lte", "date-mt", "date-lt",
      "start_date", "start_date-eq", "start_date-mte", "start_date-lte",
      "end_date", "end_date-eq", "end_date-mte", "end_date-lte",
      "created_at", "updated_at", "finished_at" }

(***************************************************************************)
(* fetchPage: the query it builds.                                         *)
(***************************************************************************)
\* the arguments of one fetchPage call
Args(basePath, page, filters, sort, includes, fields, limit, search) ==
    [basePath |-> basePath, page |-> page, filters |-> filters, sort |-> sort,
     includes |-> includes, fields |-> fields, limit |-> limit, search |-> search]

\* as AppendIf, testing `x !== undefined` instead of truthiness
AppendIf_whenDefined(nm, v) == IF v.t # "undef" THEN <<Param(nm, toString(v))>> ELSE <<>>

\* `if (x) queryParams.append(name, x)`
AppendIf(nm, v) == IF Truthy(v) THEN <<Param(nm, toString(v))>> ELSE <<>>

\* as filterValue, without the boolean case (value.toString() alone)
filterValue_toString(v) == toString(v)

\* typeof value === 'boolean' ? (value ? '1' : '0') : value.toString()
filterValue(v) == IF v.t = "bool" THEN (IF v.b THEN "1" ELSE "0") ELSE toString(v)

\* Object.entries(filters).forEach(...) of src/src/index.ts
FilterParams(filters) ==
    [i \in 1..Len(filters) |-> Param(FilterName(filters[i].key), filterValue(filters[i].value))]

\* the page parameter: `page: number = 1`, then page.toString()
PageParam(page) == Param("page", toString(IF page.t = "undef" THEN Num(1) ELSE page))

\* value.toString(): the copy of src/src/types.ts has no boolean case
filterValueTypes(v) == toString(v)

\* Object.entries(filters).forEach(...) of src/src/types.ts
FilterParamsTypes(filters) ==
    [i \in 1..Len(filters) |->
        Param(FilterName(filters[i].key), filterValueTypes(filters[i].value))]

\* fetchPage of src/src/index.ts, the copy the tool handlers call
fetchPage(a) ==
    <<PageParam(a.page)>>
    \o AppendIf("limit", a.limit)
    \o AppendIf("sort", a.sort)
    \o AppendIf("include", a.includes)
    \o AppendIf("fields", a.fields)
    \o AppendIf("search", a.search)
    \o FilterParams(a.filters)

\* fetchPage of src/src/types.ts, the copy the get-all-* tools call: it
\* takes no search argument
fetchPageTypes(a) ==
    <<PageParam(a.page)>>
    \o AppendIf("limit", a.limit)
    \o AppendIf("sort", a.sort)
    \o AppendIf("include", a.includes)
    \o AppendIf("fields", a.fields)
    \o FilterParamsTypes(a.filters)

\* the sort step of the utility copy: rounds sort allow-list
SortParamUtil(basePath, sort) ==
    IF Truthy(sort)
    THEN IF basePath = "rounds" /\ toString(sort) \notin validRoundsSortFields
         THEN <<Param("sort", "id-asc")>>
         ELSE <<Param("sort", toString(sort))>>
    ELSE <<>>

\* as FilterParamsUtil, dropping end_date whatever the resource
FilterParamsUtil_anyResource(basePath, filters) ==
    LET kept == SelectSeq(filters, LAMBDA e : e.key # "end_date")
    IN [i \in 1..Len(kept) |-> Param(FilterName(kept[i].key), filterValue(kept[i].value))]

\* the filter loop of the utility copy: end_date is dropped on rounds
FilterParamsUtil(basePath, filters) ==
    LET kept == SelectSeq(filters, LAMBDA e : ~(basePath = "rounds" /\ e.key = "end_date"))
    IN [i \in 1..Len(kept) |-> Param(FilterName(kept[i].key), filterValue(kept[i].value))]

\* fetchPage of the utility module (src/unnamed/part_001)
fetchPageUtil(a) ==
    <<PageParam(a.page)>>
    \o AppendIf("limit", a.limit)
    \o SortParamUtil(a.basePath, a.sort)
    \o AppendIf("include", a.includes)
    \o AppendIf("fields", a.fields)
    \o AppendIf("search", a.search)
    \o FilterParamsUtil(a.basePath, a.filters)

(***************************************************************************)
(* makeOnSecurityRequest: what it gives its caller for each outcome of the *)
(* GET.  A return is [threw, value]; the value null is Null.               *)
(***************************************************************************)
Null == [kind |-> "null"]

Outcomes == {"network_error", "http_error", "bad_json", "ok"}

\* the try block: fetch, the response.ok test, response.json()
TryRequest(outcome, body) ==
    CASE outcome = "network_error" -> [threw |-> TRUE, value |-> Null]
      [] outcome = "http_error" -> [threw |-> TRUE, value |-> Null]
      [] outcome = "bad_json" -> [threw |-> TRUE, value |-> Null]
      [] outcome = "ok" -> [threw |-> FALSE, value |-> body]

\* as makeOnSecurityRequest, with response.json() awaited outside the try block
makeOnSecurityRequest_jsonUncaught(outcome, body) ==
    LET r == TryRequest(outcome, body)
    IN IF r.threw /\ outcome # "bad_json" THEN [threw |-> FALSE, value |-> Null] ELSE r

\* the catch block: log and return null
makeOnSecurityRequest(outcome, body) ==
    LET r == TryRequest(outcome, body)
    IN IF r.threw THEN [threw |-> FALSE, value |-> Null] ELSE r

(***************************************************************************)
(* Upstream JSON bodies.  A page is an object that may lack `links` or     *)
(* `result`; a record of a page may lack `estimate`; a task record carries *)
(* the ids its url matches (0: the pattern does not match).                *)
(***************************************************************************)
Ids == 1..MaxId

\* which of /tests/(\d+), /findings/(\d+), /test/(\d+)/prerequisites match
Urls == [tests : 0..MaxId, findings : 0..MaxId, prereq : 0..MaxId]
NoUrl == [tests |-> 0, findings |-> 0, prereq |-> 0]

Item(hasEstimate, url) == [hasEstimate |-> hasEstimate, url |-> url]

\* a task record: its url and its type, a number
Task(url, type) == [hasEstimate |-> TRUE, url |-> url, type |-> type]

Page(hasLinks, hasResult, result) ==
    [kind |-> "object", hasLinks |-> hasLinks, hasResult |-> hasResult,
     result |-> result, round_id |-> 0, pod_id |-> 0]

\* a single finding or round: round_id / pod_id 0 stands for an absent member
Single(round_id, pod_id) ==
    [kind |-> "object", hasLinks |-> FALSE, hasResult |-> FALSE,
     result |-> <<>>, round_id |-> round_id, pod_id |-> pod_id]

\* the round get-round-summary is answered with: an object with a name (a
\* string, or undefined when the member is absent)
Summary(name) ==
    [kind |-> "object", hasLinks |-> FALSE, hasResult |-> FALSE,
     result |-> <<>>, round_id |-> 0, pod_id |-> 0, name |-> name]

\* the names of the rounds the upstream answers get-round-summary with
RoundNames == {Undef, Str("Round one")}

RECURSIVE SeqsUpTo(_, _)
\* the sequences over S of length at most n
SeqsUpTo(S, n) ==
    IF n = 0 THEN {<<>>}
    ELSE LET shorter == SeqsUpTo(S, n - 1)
         IN shorter \cup {Append(q, x) : q \in shorter, x \in S}

(***************************************************************************)
(* The tools of src/src/index.ts.                                          *)
(***************************************************************************)
Tools ==
    { "get-rounds", "get-findings", "get-notifications", "get-prerequisites",
      "get-blocks", "get-round-automations", "get-round-artifacts",
      "get-round-summary", "get-vulnerability-trends", "get-report-templates",
      "get-platform-pods", "get-platform-tasks", "get-time-logs" }

\* the tools of src/src/types.ts
TypesTools == {"get-all-rounds", "get-all-findings", "get-all-notifications"}

\* the tools of both servers
AnyTool == Tools \cup TypesTools

\* Number(process.env.ONSECURITY_CLIENT_ID): the client the process of
\* src/src/types.ts is configured for
ONSECURITY_CLIENT_ID == Num(4)

ParamNames ==
    { "page", "limit", "sort", "includes", "fields", "search", "filters",
      "round_type", "round_id", "round_type_id", "approved", "automation_approved",
      "status", "automation_type", "file_type", "include_findings",
      "include_time_tracking", "include_team", "include_prerequisites",
      "min_usage_count", "include_remediation", "client_id", "template_type",
      "is_default", "completed", "snoozed", "user_id", "date_from", "date_to",
      "roundId" }

\* the optional parameters each tool's schema declares
Optional(tool) ==
    CASE tool = "get-rounds" ->
           {"round_type", "sort", "limit", "page", "includes", "fields", "filters", "search"}
      [] tool = "get-findings" ->
           {"round_id", "round_type", "sort", "limit", "page", "includes", "fields",
            "filters", "search"}
      [] tool = "get-notifications" ->
           {"sort", "limit", "page", "includes", "fields", "filters"}
      [] tool = "get-prerequisites" ->
           {"sort", "limit", "page", "fields", "filters"}
      [] tool = "get-blocks" ->
           {"round_type_id", "approved", "automation_approved", "sort", "limit", "page",
            "includes", "fields", "filters", "search"}
      [] tool = "get-round-automations" ->
           {"round_id", "status", "automation_type", "sort", "limit", "page", "filters"}
      [] tool = "get-round-artifacts" ->
           {"round_id", "file_type", "sort", "limit", "page", "filters"}
      [] tool = "get-round-summary" ->
           {"include_findings", "include_time_tracking", "include_team",
            "include_prerequisites"}
      [] tool = "get-vulnerability-trends" ->
           {"round_type_id", "min_usage_count", "limit", "include_remediation"}
      [] tool = "get-report-templates" ->
           {"client_id", "template_type", "is_default", "sort", "limit", "page"}
      [] tool = "get-platform-pods" -> {"includes", "limit", "page"}
      [] tool = "get-platform-tasks" ->
           {"completed", "snoozed", "sort", "limit", "page", "includes", "fields"}
      [] tool = "get-time-logs" ->
           {"round_id", "user_id", "client_id", "date_from", "date_to", "sort", "limit",
            "page", "includes", "fields"}
      [] tool = "get-all-rounds" ->
           {"round_type", "sort", "limit", "page", "includes", "fields", "filters"}
      [] tool = "get-all-findings" ->
           {"round_id", "round_type", "sort", "limit", "page", "includes", "fields",
            "filters"}
      [] tool = "get-all-notifications" ->
           {"sort", "limit", "page", "includes", "fields", "filters"}

\* the required parameters (z.number() without .optional())
Required(tool) ==
    IF tool \in {"get-prerequisites", "get-round-summary"} THEN {"round_id"} ELSE {}

\* caller-supplied filter entries
FilterEntries ==
    { Entry("end_date", Str("2024-01-31")), Entry("end_date-lte", Str("2024-01-31")),
      Entry("created_at", Str("2024-01-01")), Entry("started", Bool(TRUE)),
      Entry("finished", Bool(FALSE)), Entry("client_id-eq", Num(7)),
      Entry("round_id-eq", Num(9)), Entry("name", Str("web")),
      Entry("round_type_id-eq", Bool(TRUE)), Entry("approved-eq", Bool(TRUE)),
      Entry("10", Str("a")), Entry("9", Str("b")), Entry("__proto__", Num(1)) }

\* caller-supplied filters maps: objects of at most MaxFilters entries
FilterMaps == { m \in SeqsUpTo(FilterEntries, MaxFilters) : InKeyOrder(m) }

\* the values a caller supplies for a parameter
ParamValues(name) ==
    CASE name = "page" -> {Num(i) : i \in 0..MaxPage}
      [] name = "limit" -> {Num(0), Num(15)}
      [] name = "sort" -> {Str(""), Str("name-asc"), Str("end_date-desc"), Str("bogus-field")}
      [] name \in {"includes", "fields", "search"} -> {Str(""), Str("text")}
      [] name = "filters" -> {Obj(m) : m \in FilterMaps}
      [] name \in {"round_type", "round_type_id"} -> {Num(0), Num(1), Num(3)}
      [] name \in {"round_id", "client_id", "user_id"} -> {Num(i) : i \in 0..MaxId}
      [] name \in {"approved", "automation_approved", "is_default", "completed", "snoozed",
                   "include_findings", "include_time_tracking", "include_team",
                   "include_prerequisites", "include_remediation"} ->
           {Bool(TRUE), Bool(FALSE)}
      [] name = "status" -> {Str("failed")}
      [] name \in {"automation_type", "file_type", "template_type"} -> {Str(""), Str("text")}
      [] name = "min_usage_count" -> {Num(0), Num(3)}
      [] name \in {"date_from", "date_to"} -> {Str(""), Str("2024-01-01")}

RECURSIVE Assign(_, _)
\* every way to give the parameters of S a value, on top of base
Assign(S, base) ==
    IF S = {} THEN {base}
    ELSE LET n == CHOOSE x \in S : TRUE
         IN UNION { Assign(S \ {n}, [base EXCEPT ![n] = v]) : v \in ParamValues(n) }

NoParams == [n \in ParamNames |-> Undef]

\* the name the server registers its one resource under
FullContext == "round/{roundId}/full-context"

\* request.params?.roundId of a read of the resource: undefined when the
\* request carries no params, the text cut from the uri otherwise
RoundIdParams == {Undef, Str("7")}

\* the requests a read of the resource hands its callback
Reads == { [NoParams EXCEPT !["roundId"] = v] : v \in RoundIdParams }

\* the include list of the resource's one GET
fullContextIncludes ==
    "client,findings,prerequisites,targets,targets.target_type,time_logs,round_team_users"

\* FilterSchema: a record of strings, numbers and booleans in
\* src/src/index.ts, of strings and numbers in src/src/types.ts; filters may
\* be left out
FilterSchema(tool, f) ==
    \/ f.t = "undef"
    \/ \A i \in 1..Len(f.m) :
         f.m[i].value.t \in (IF tool \in TypesTools THEN {"str", "num"}
                             ELSE {"str", "num", "bool"})

\* the parameter objects a caller sends to a tool and the tool's schema
\* accepts: the handler runs on these
Calls(tool) ==
    { p \in UNION { Assign(S \cup Required(tool), NoParams) :
                      S \in {T \in SUBSET Optional(tool) : Cardinality(T) <= MaxArgs} } :
        FilterSchema(tool, p["filters"]) }

\* the schema's .default(...) values, applied before the handler runs
WithDefaults(tool, p) ==
    LET dflt(n, v) == IF p[n].t = "undef" THEN v ELSE p[n]
    IN CASE tool = "get-round-summary" ->
              [p EXCEPT !["include_findings"] = dflt("include_findings", Bool(TRUE)),
                        !["include_time_tracking"] = dflt("include_time_tracking", Bool(TRUE)),
                        !["include_team"] = dflt("include_team", Bool(TRUE)),
                        !["include_prerequisites"] = dflt("include_prerequisites", Bool(TRUE))]
         [] tool = "get-vulnerability-trends" ->
              [p EXCEPT !["min_usage_count"] = dflt("min_usage_count", Num(5)),
                        !["limit"] = dflt("limit", Num(20)),
                        !["include_remediation"] = dflt("include_remediation", Bool(TRUE))]
         [] OTHER -> p

(***************************************************************************)
(* The handlers: from the parameters to the arguments of fetchPage.        *)
(***************************************************************************)
\* typeof value === 'boolean' ? (value ? 1 : 0) : value
Coerce(v) == IF v.t = "bool" THEN Num(IF v.b THEN 1 ELSE 0) ELSE v

RECURSIVE PutAll(_, _)
PutAll(m, es) ==
    IF es = <<>> THEN m
    ELSE PutAll(Put(m, Head(es).key, Coerce(Head(es).value)), Tail(es))

\* if (params.filters) Object.entries(params.filters).forEach(... filters[key] = ...)
AddFilters(m, f) == IF Truthy(f) THEN PutAll(m, f.m) ELSE m

RECURSIVE CopyAll(_, _)
\* Object.entries(params.filters).forEach(... filters[key] = value) of
\* src/src/types.ts
CopyAll(m, es) ==
    IF es = <<>> THEN m ELSE CopyAll(Put(m, Head(es).key, Head(es).value), Tail(es))

\* if (params.filters) ... of src/src/types.ts
AddFiltersTypes(m, f) == IF Truthy(f) THEN CopyAll(m, f.m) ELSE m

\* if (params.x) filters[k] = params.x
PutIf(m, k, v) == IF Truthy(v) THEN Put(m, k, v) ELSE m

\* if (params.x !== undefined) filters[k] = params.x ? 1 : 0
PutFlag(m, k, v) == IF v.t # "undef" THEN Put(m, k, Num(IF Truthy(v) THEN 1 ELSE 0)) ELSE m

\* as RequestedPage, with the page argument ignored
RequestedPage_ignored(page) == Num(1)

\* params.page || 1
RequestedPage(page) == OrElse(page, Num(1))

getRoundsArgs(p) ==
    Args("rounds", RequestedPage(p["page"]),
         PutIf(AddFilters(<<>>, p["filters"]), "round_type_id-eq", p["round_type"]),
         p["sort"], p["includes"], p["fields"], p["limit"], p["search"])

getFindingsArgs(p) ==
    Args("findings", RequestedPage(p["page"]),
         PutIf(PutIf(AddFilters(<<>>, p["filters"]), "round_id-eq", p["round_id"]),
               "round_type_id-eq", p["round_type"]),
         p["sort"], p["includes"], p["fields"], p["limit"], p["search"])

getNotificationsArgs(p) ==
    Args("notifications", RequestedPage(p["page"]), AddFilters(<<>>, p["filters"]),
         p["sort"], p["includes"], p["fields"], p["limit"], Undef)

getPrerequisitesArgs(p) ==
    Args("prerequisites", RequestedPage(p["page"]),
         AddFilters(<<Entry("round_id-eq", p["round_id"])>>, p["filters"]),
         p["sort"], Undef, p["fields"], p["limit"], Undef)

getBlocksArgs(p) ==
    Args("blocks", RequestedPage(p["page"]),
         PutFlag(PutFlag(PutIf(AddFilters(<<>>, p["filters"]),
                               "round_type_id-eq", p["round_type_id"]),
                         "approved-eq", p["approved"]),
                 "automation_approved-eq", p["automation_approved"]),
         p["sort"], p["includes"], p["fields"], p["limit"], p["search"])

getRoundAutomationsArgs(p) ==
    Args("round-automations", RequestedPage(p["page"]),
         AddFilters(PutIf(PutIf(PutIf(<<>>, "round_id-eq", p["round_id"]),
                                "status-eq", p["status"]),
                          "automation_type-eq", p["automation_type"]),
                    p["filters"]),
         p["sort"], Undef, Str("*"), p["limit"], Undef)

getRoundArtifactsArgs(p) ==
    Args("round-artifacts", RequestedPage(p["page"]),
         AddFilters(PutIf(PutIf(<<>>, "round_id-eq", p["round_id"]),
                          "file_type-eq", p["file_type"]),
                    p["filters"]),
         p["sort"], Undef, Str("*"), p["limit"], Undef)

getVulnerabilityTrendsArgs(p) ==
    Args("blocks", Num(1),
         Put(PutIf(<<>>, "round_type_id-eq", p["round_type_id"]),
             "used_count-mte", OrElse(p["min_usage_count"], Num(5))),
         Str("used_count-desc"),
         IF Truthy(p["include_remediation"]) THEN Str("block_remediations") ELSE Undef,
         Str("id,name,used_count,remediation_complexity,ratings"), p["limit"], Undef)

getReportTemplatesArgs(p) ==
    Args("client-report-templates", RequestedPage(p["page"]),
         PutFlag(PutIf(PutIf(<<>>, "client_id-eq", p["client_id"]),
                       "template_type-eq", p["template_type"]),
                 "is_default-eq", p["is_default"]),
         p["sort"], Str("client"), Str("*"), p["limit"], Undef)

getPlatformPodsArgs(p) ==
    Args("platform/pods", RequestedPage(p["page"]), <<>>, Str("id-asc"),
         OrElse(p["includes"], Str("pod_users,pod_users.user")), Str("*"),
         OrElse(p["limit"], Num(50)), Undef)

\* as getPlatformTasksArgs, without the default to incomplete tasks
getPlatformTasksArgs_noDefault(p) ==
    Args("platform/tasks", RequestedPage(p["page"]),
         PutFlag(PutFlag(<<>>, "completed-eq", p["completed"]), "snoozed-eq", p["snoozed"]),
         OrElse(p["sort"], Str("id-asc")),
         OrElse(p["includes"], Str("task_users,task_users.user,client")),
         OrElse(p["fields"], Str("*,client.id,client.name,task_users.*,task_users.user.*")),
         OrElse(p["limit"], Num(50)), Undef)

getPlatformTasksArgs(p) ==
    Args("platform/tasks", RequestedPage(p["page"]),
         PutFlag(Put(<<>>, "completed-eq", Num(IF Truthy(p["completed"]) THEN 1 ELSE 0)),
                 "snoozed-eq", p["snoozed"]),
         OrElse(p["sort"], Str("id-asc")),
         OrElse(p["includes"], Str("task_users,task_users.user,client")),
         OrElse(p["fields"], Str("*,client.id,client.name,task_users.*,task_users.user.*")),
         OrElse(p["limit"], Num(50)), Undef)

getTimeLogsArgs(p) ==
    Args("time-logs", RequestedPage(p["page"]),
         PutIf(PutIf(PutIf(PutIf(PutIf(<<>>, "round_id-eq", p["round_id"]),
                                 "user_id-eq", p["user_id"]),
                           "client_id-eq", p["client_id"]),
                     "date-mte", p["date_from"]),
               "date-lte", p["date_to"]),
         OrElse(p["sort"], Str("date-desc")),
         OrElse(p["includes"], Str("round,user,client")),
         OrElse(p["fields"], Str("*")),
         OrElse(p["limit"], Num(50)), Undef)

\* the filters each handler of src/src/types.ts starts from
ClientFilter == <<Entry("client_id-eq", ONSECURITY_CLIENT_ID)>>

getAllRoundsArgs(p) ==
    Args("rounds", RequestedPage(p["page"]),
         PutIf(AddFiltersTypes(ClientFilter, p["filters"]), "round_type_id-eq", p["round_type"]),
         p["sort"], p["includes"], p["fields"], p["limit"], Undef)

getAllFindingsArgs(p) ==
    Args("findings", RequestedPage(p["page"]),
         PutIf(PutIf(AddFiltersTypes(ClientFilter, p["filters"]), "round_id-eq", p["round_id"]),
               "round_type_id-eq", p["round_type"]),
         p["sort"], p["includes"], p["fields"], p["limit"], Undef)

getAllNotificationsArgs(p) ==
    Args("notifications", RequestedPage(p["page"]),
         AddFiltersTypes(ClientFilter, p["filters"]),
         p["sort"], p["includes"], p["fields"], p["limit"], Undef)

\* the secondary pod lookup of get-platform-tasks
podLookupArgs(podId) ==
    Args("platform/pods", Num(1), <<Entry("id-eq", Num(podId))>>, Str("id-asc"),
         Str("pod_users,pod_users.user"), Str("*"), Num(1), Undef)

\* the include list of get-round-summary
roundSummaryIncludes(p) ==
    "client,findings,prerequisites,targets,targets.target_type"
    \o (IF Truthy(p["include_time_tracking"]) THEN ",time_logs" ELSE "")
    \o (IF Truthy(p["include_team"]) THEN ",round_team_users,team_leader_user" ELSE "")

\* the arguments a list tool hands to fetchPage
HandlerArgs(tool, p) ==
    CASE tool = "get-rounds" -> getRoundsArgs(p)
      [] tool = "get-findings" -> getFindingsArgs(p)
      [] tool = "get-notifications" -> getNotificationsArgs(p)
      [] tool = "get-prerequisites" -> getPrerequisitesArgs(p)
      [] tool = "get-blocks" -> getBlocksArgs(p)
      [] tool = "get-round-automations" -> getRoundAutomationsArgs(p)
      [] tool = "get-round-artifacts" -> getRoundArtifactsArgs(p)
      [] tool = "get-vulnerability-trends" -> getVulnerabilityTrendsArgs(p)
      [] tool = "get-report-templates" -> getReportTemplatesArgs(p)
      [] tool = "get-platform-pods" -> getPlatformPodsArgs(p)
      [] tool = "get-platform-tasks" -> getPlatformTasksArgs(p)
      [] tool = "get-time-logs" -> getTimeLogsArgs(p)
      [] tool = "get-all-rounds" -> getAllRoundsArgs(p)
      [] tool = "get-all-findings" -> getAllFindingsArgs(p)
      [] tool = "get-all-notifications" -> getAllNotificationsArgs(p)

\* which copy of fetchPage a tool's handler calls
Copy(tool) == IF tool \in TypesTools THEN "types" ELSE "index"

\* the query that copy builds
fetchPageOf(tool, a) == IF tool \in TypesTools THEN fetchPageTypes(a) ELSE fetchPage(a)

(***************************************************************************)
(* The handlers: from the fetched value to the tool result.                *)
(***************************************************************************)
\* the text of the `if (!response)` branch of each handler
ErrorText(tool) ==
    CASE tool = "get-rounds" -> "Error fetching rounds data. Please try again."
      [] tool = "get-findings" -> "Error fetching findings data. Please try again."
      [] tool = "get-notifications" -> "Error fetching notifications data. Please try again."
      [] tool = "get-prerequisites" -> "Error fetching prerequisites data. Please try again."
      [] tool = "get-blocks" -> "Error fetching blocks data. Please try again."
      [] tool = "get-round-automations" -> "Error fetching automation data."
      [] tool = "get-round-artifacts" -> "Error fetching artifacts data."
      [] tool = "get-round-summary" -> "Error fetching round summary."
      [] tool = "get-vulnerability-trends" -> "Error fetching vulnerability trends."
      [] tool = "get-report-templates" -> "Error fetching report templates."
      [] tool = "get-platform-pods" -> "Error fetching platform pods."
      [] tool = "get-platform-tasks" -> "Error fetching platform tasks."
      [] tool = "get-time-logs" -> "Error fetching time logs."
      [] tool = "get-all-rounds" -> "Error fetching rounds data. Please try again."
      [] tool = "get-all-findings" -> "Error fetching findings data. Please try again."
      [] tool = "get-all-notifications" ->
           "Error fetching notifications data. Please try again."

\* the first line of the document each handler renders on success, from the
\* body of its primary response; get-round-summary's line is the template
\* literal `# Round Summary: ${round.name}`
Heading(tool, body) ==
    CASE tool = "get-rounds" -> "# Rounds Summary"
      [] tool = "get-findings" -> "# Findings Summary"
      [] tool = "get-notifications" -> "# Notifications Summary"
      [] tool = "get-prerequisites" -> "# Prerequisites Summary"
      [] tool = "get-blocks" -> "# Blocks Summary"
      [] tool = "get-round-automations" -> "# Round Automations Summary"
      [] tool = "get-round-artifacts" -> "# Round Artifacts Summary"
      [] tool = "get-round-summary" -> "# Round Summary: " \o toString(body.name)
      [] tool = "get-vulnerability-trends" -> "# Vulnerability Trends Analysis"
      [] tool = "get-report-templates" -> "# Report Templates"
      [] tool = "get-platform-pods" -> "# Platform Pods (Teams)"
      [] tool = "get-platform-tasks" -> "# Platform Tasks"
      [] tool = "get-time-logs" -> "# Time Logs"
      [] tool = "get-all-rounds" -> "# Rounds Summary"
      [] tool = "get-all-findings" -> "# Findings Summary"
      [] tool = "get-all-notifications" -> "# Notifications Summary"

\* a tool result { content: [{ type: "text", text }] }; lines are the
\* per-record lines the model keeps of the text
TextResult(head, lines) ==
    [status |-> "returned",
     content |-> <<[type |-> "text", text |-> [head |-> head, lines |-> lines]]>>]

\* JSON.stringify(value, null, space): the text keeps the value and the
\* indentation it was written with (0: none)
stringify(value, space) == [json |-> value, space |-> space]

\* the object the resource answers with when its GET gave null
RoundNotFound == [error |-> "Round not found"]

\* a resource result { contents: [{ uri, mimeType, text }] } of the
\* full-context resource for the roundId it was read with
ResourceResult(roundId, text) ==
    [status |-> "returned",
     contents |-> <<[uri |-> "round/" \o toString(roundId) \o "/full-context",
                     mimeType |-> "application/json", text |-> text]>>]

\* what the callback of the resource returns, from what its GET gave it
fullContext(roundId, round) ==
    IF round = Null THEN ResourceResult(roundId, stringify(RoundNotFound, 0))
    ELSE ResourceResult(roundId, stringify(round, 2))

\* the handler's promise rejects
Thrown == [status |-> "threw", content |-> <<>>]
NoResult == [status |-> "none", content |-> <<>>]

\* the handlers that call formatPaginationInfo, which reads response.links.next
UsesPagination(tool) ==
    tool \in {"get-rounds", "get-findings", "get-notifications", "get-prerequisites",
              "get-blocks"} \cup TypesTools

\* the success path reads a member of undefined: a TypeError leaves the handler
Throws(tool, body) ==
    \/ UsesPagination(tool) /\ ~body.hasLinks
    \/ tool # "get-round-summary" /\ ~body.hasResult
    \/ tool \in {"get-rounds", "get-all-rounds"}
         /\ \E i \in 1..Len(body.result) : ~body.result[i].hasEstimate

\* the bodies the upstream may answer a tool's primary request with
Items(tool) ==
    CASE tool \in {"get-rounds", "get-all-rounds"} -> {Item(e, NoUrl) : e \in BOOLEAN}
      [] tool = "get-platform-tasks" -> {Task(u, 1) : u \in Urls}
      [] OTHER -> {Item(TRUE, NoUrl)}

Bodies(tool) ==
    IF tool \in {"get-round-summary", FullContext} THEN {Null} \cup {Summary(n) : n \in RoundNames}
    ELSE {Null}
         \cup {Page(l, FALSE, <<>>) : l \in BOOLEAN}
         \cup {Page(l, TRUE, r) : l \in BOOLEAN, r \in SeqsUpTo(Items(tool), MaxItems)}

(***************************************************************************)
(* get-platform-tasks: ids, lookup tables and the pod line of a task.      *)
(* A table maps an id to a value, 0 standing for null.  answers keeps what *)
(* each lookup, named by its loop and id, gave the handler.                *)
(***************************************************************************)
Range(q) == {q[i] : i \in 1..Len(q)}

\* as SetAdd, on a list: a value added twice is kept twice
SetAdd_append(q, x) == Append(q, x)

\* Set.add: insertion order, no duplicates
SetAdd(q, x) == IF x \in Range(q) THEN q ELSE Append(q, x)

\* table[k] = v
Assign1(table, k, v) ==
    IF k \in DOMAIN table THEN [table EXCEPT ![k] = v] ELSE table @@ (k :> v)

RECURSIVE extractIds_firstOnly(_, _)
RECURSIVE extractIds(_, _)
\* as extractIds, leaving the loop after the first task
extractIds_firstOnly(tasks, acc) ==
    IF tasks = <<>> THEN acc
    ELSE LET u == Head(tasks).url
         IN IF u.tests # 0
              THEN [acc EXCEPT !.roundIds = SetAdd(@, u.tests)]
            ELSE IF u.findings # 0
              THEN [acc EXCEPT !.findingIds = SetAdd(@, u.findings)]
            ELSE IF u.prereq # 0
              THEN [acc EXCEPT !.roundIds = SetAdd(@, u.prereq)]
            ELSE acc

\* the loop over response.result that fills roundIds and findingIds
extractIds(tasks, acc) ==
    IF tasks = <<>> THEN acc
    ELSE LET u == Head(tasks).url
             next == IF u.tests # 0
                       THEN [acc EXCEPT !.roundIds = SetAdd(@, u.tests)]
                     ELSE IF u.findings # 0
                       THEN [acc EXCEPT !.findingIds = SetAdd(@, u.findings)]
                     ELSE IF u.prereq # 0
                       THEN [acc EXCEPT !.roundIds = SetAdd(@, u.prereq)]
                     ELSE acc
         IN extractIds(Tail(tasks), next)

RECURSIVE Ascending(_)
\* the elements of a set of numbers in ascending order
Ascending(S) ==
    IF S = {} THEN <<>>
    ELSE LET least == CHOOSE x \in S : \A y \in S : x <= y
         IN <<least>> \o Ascending(S \ {least})

RECURSIVE Dedupe(_, _)
Dedupe(q, acc) == IF q = <<>> THEN acc ELSE Dedupe(Tail(q), SetAdd(acc, Head(q)))

\* as uniquePodIds, without the Set: a pod of two rounds is listed twice
uniquePodIds_repeated(roundIdToPodMap) ==
    LET keys == Ascending(DOMAIN roundIdToPodMap)
        vals == [i \in 1..Len(keys) |-> roundIdToPodMap[keys[i]]]
    IN SelectSeq(vals, LAMBDA v : v # 0)

\* [...new Set(Object.values(roundIdToPodMap).filter(id => id !== null))]
uniquePodIds(roundIdToPodMap) ==
    LET keys == Ascending(DOMAIN roundIdToPodMap)
        vals == [i \in 1..Len(keys) |-> roundIdToPodMap[keys[i]]]
    IN Dedupe(SelectSeq(vals, LAMBDA v : v # 0), <<>>)

\* table[k] as JavaScript reads it: a missing key gives undefined, which the
\* renderer treats as it treats null
Lookup(table, k, missing) == IF k \in DOMAIN table THEN table[k] ELSE missing

\* as podInfo, with one failed lookup spoiling every task
podInfo_sharedFailure(u, f) ==
    LET roundId == IF u.tests # 0 THEN u.tests
                   ELSE IF u.findings # 0 THEN Lookup(f.findingToRoundMap, u.findings, 0)
                   ELSE u.prereq
        podId == IF roundId # 0 THEN Lookup(f.roundIdToPodMap, roundId, 0) ELSE 0
        failed == \/ \E k \in DOMAIN f.findingToRoundMap : f.findingToRoundMap[k] = 0
                  \/ \E k \in DOMAIN f.roundIdToPodMap : f.roundIdToPodMap[k] = 0
                  \/ \E k \in DOMAIN f.podCache : ~f.podCache[k]
    IN IF failed THEN "Pod info not available"
       ELSE IF podId # 0 /\ Lookup(f.podCache, podId, FALSE) THEN "name of pod " \o ToString(podId)
       ELSE IF podId # 0 THEN "Pod " \o ToString(podId)
       ELSE "Pod info not available"

\* the pod line of one task
podInfo(u, f) ==
    LET roundId == IF u.tests # 0 THEN u.tests
                   ELSE IF u.findings # 0 THEN Lookup(f.findingToRoundMap, u.findings, 0)
                   ELSE u.prereq
        podId == IF roundId # 0 THEN Lookup(f.roundIdToPodMap, roundId, 0) ELSE 0
    IN IF podId # 0 /\ Lookup(f.podCache, podId, FALSE) THEN "name of pod " \o ToString(podId)
       ELSE IF podId # 0 THEN "Pod " \o ToString(podId)
       ELSE "Pod info not available"

NoFan ==
    [tasks |-> <<>>, findingIds |-> <<>>, roundIds |-> <<>>, podIds |-> <<>>,
     findingToRoundMap |-> <<>>, roundIdToPodMap |-> <<>>, podCache |-> <<>>, cur |-> 0,
     answers |-> <<>>]

\* the readable names of the task types 1 to 8
taskTypeNames ==
    <<"Comment", "Review", "Retest Requested", "New File", "Executive Review",
      "Unknown", "New Annotation", "Prerequisite">>

\* taskTypeNames[task.type] || `Unknown Type ${task.type}`
taskTypeName(type) ==
    IF type \in 1..Len(taskTypeNames) THEN taskTypeNames[type]
    ELSE "Unknown Type " \o ToString(type)

RECURSIVE tasksByType(_, _)
\* response.result.reduce(..., {}): the tasks under their type name, the
\* names in the order in which each first occurs, the tasks of a name in
\* list order
tasksByType(acc, tasks) ==
    IF tasks = <<>> THEN acc
    ELSE LET task == Head(tasks)
             name == taskTypeName(task.type)
             group == IF HasKey(acc, name) THEN Get(acc, name) ELSE <<>>
         IN tasksByType(Put(acc, name, Append(group, task)), Tail(tasks))

RECURSIVE Flat(_)
\* Object.entries(tasksByType).map(...).flat(): the tasks group by group
Flat(groups) == IF groups = <<>> THEN <<>> ELSE Head(groups).value \o Flat(Tail(groups))

\* the text get-platform-tasks renders once its tables are built: the pod
\* line of each task, the tasks grouped by type
tasksResult(f) ==
    LET tasks == Flat(tasksByType(<<>>, f.tasks))
    IN TextResult(Heading("get-platform-tasks", Null),
                  [i \in 1..Len(tasks) |-> podInfo(tasks[i].url, f)])

(***************************************************************************)
(* extractAssessmentTypes.  A name is its list of UTF-16 code units; the   *)
(* empty list stands for a missing or empty assessment_name.               *)
(***************************************************************************)
Names == SeqsUpTo(1..MaxChar, 2)

Target(hidden, assessment_name) == [hidden |-> hidden, assessment_name |-> assessment_name]

Targets == {Target(h, a) : h \in BOOLEAN, a \in Names}

\* a round: round.targets?.result is missing, or a list of targets
Round(hasTargets, targets) == [hasTargets |-> hasTargets, targets |-> targets]

Rounds == {Round(FALSE, <<>>)} \cup {Round(TRUE, ts) : ts \in SeqsUpTo(Targets, MaxTargets)}

\* a < b as JavaScript compares strings: by code unit, a proper prefix first
RECURSIVE LexLess(_, _)
LexLess(a, b) ==
    IF b = <<>> THEN FALSE
    ELSE IF a = <<>> THEN TRUE
    ELSE IF Head(a) # Head(b) THEN Head(a) < Head(b)
    ELSE LexLess(Tail(a), Tail(b))

\* one step of insertion: x goes before the first element greater than it
RECURSIVE Insert(_, _)
Insert(x, q) ==
    IF q = <<>> THEN <<x>>
    ELSE IF LexLess(x, Head(q)) THEN <<x>> \o q
    ELSE <<Head(q)>> \o Insert(x, Tail(q))

RECURSIVE sort(_)
\* Array.prototype.sort() without a comparator, on strings
sort(q) == IF q = <<>> THEN <<>> ELSE Insert(Head(q), sort(Tail(q)))

RECURSIVE AddNames(_, _)
\* the forEach that adds every truthy assessment_name to the Set
AddNames(ts, set) ==
    IF ts = <<>> THEN set
    ELSE AddNames(Tail(ts),
                  IF Head(ts).assessment_name # <<>>
                  THEN SetAdd(set, Head(ts).assessment_name)
                  ELSE set)

\* as extractAssessmentTypes, without the hidden === true filter
extractAssessmentTypes_allTargets(r) ==
    IF ~r.hasTargets THEN <<>> ELSE sort(AddNames(r.targets, <<>>))

extractAssessmentTypes(r) ==
    IF ~r.hasTargets THEN <<>>
    ELSE sort(AddNames(SelectSeq(r.targets, LAMBDA t : t.hidden = TRUE), <<>>))

(***************************************************************************)
(* extractActualTargets.  A target carries hidden, value (string | null),  *)
(* target_type?.result?.name and notes (string | null).                    *)
(***************************************************************************)
ValueTarget(hidden, value, typeName, notes) ==
    [hidden |-> hidden, value |-> value, typeName |-> typeName, notes |-> notes]

ValueTargets ==
    { ValueTarget(h, v, ty, n) :
        h \in BOOLEAN,
        v \in {JsNull, Str(""), Str("10.0.0.1")},
        ty \in {Undef, Str("Web Application")},
        n \in {JsNull, Str("prod only")} }

ValueRounds ==
    {Round(FALSE, <<>>)} \cup {Round(TRUE, ts) : ts \in SeqsUpTo(ValueTargets, MaxTargets)}

\* the .map of extractActualTargets: { value, type, notes }
projectTarget(t) ==
    [value |-> t.value,
     type |-> OrElse(t.typeName, Str("Unknown")),
     notes |-> OrElse(t.notes, Undef)]

\* q with f applied to every element
Map(q, f(_)) == [i \in 1..Len(q) |-> f(q[i])]

\* as extractActualTargets, keeping the hidden targets too
extractActualTargets_hiddenToo(r) ==
    IF ~r.hasTargets THEN <<>>
    ELSE Map(SelectSeq(r.targets, LAMBDA t : Truthy(t.value)), projectTarget)

extractActualTargets(r) ==
    IF ~r.hasTargets THEN <<>>
    ELSE Map(SelectSeq(r.targets, LAMBDA t : t.hidden = FALSE /\ Truthy(t.value)),
             projectTarget)

(***************************************************************************)
(* extractTimeData.  A round carries estimate (missing, or an object with  *)
(* time) and time_logs?.result (missing, or a list of logs with hours).    *)
(***************************************************************************)
Hours == {Undef} \cup {Num(h) : h \in 0..MaxHours}

TimedRound(estimate, hasLogs, logs) ==
    [estimate |-> estimate, hasLogs |-> hasLogs, logs |-> logs]

\* round.estimate: undefined, or { time }
Estimates == {Undef} \cup {Obj(<<Entry("time", h)>>) : h \in Hours}

TimedRounds ==
    {TimedRound(e, FALSE, <<>>) : e \in Estimates}
      \cup {TimedRound(e, TRUE, ls) : e \in Estimates, ls \in SeqsUpTo(Hours, MaxLogs)}

RECURSIVE reduceHours(_, _)
\* time_logs.result.reduce((sum, log) => sum + (log.hours || 0), 0)
reduceHours(logs, sum) ==
    IF logs = <<>> THEN sum
    ELSE reduceHours(Tail(logs), sum + OrElse(Head(logs), Num(0)).n)

\* Math.max(a, b)
Max(a, b) == IF a >= b THEN a ELSE b

\* as clampRemaining, without Math.max
clampRemaining_unclamped(estimated, logged) == estimated - logged

\* timeData.remaining = Math.max(0, timeData.estimated - timeData.logged)
clampRemaining(estimated, logged) == Max(0, estimated - logged)

extractTimeData(r) ==
    LET estimated == IF Truthy(r.estimate)
                     THEN OrElse(Get(r.estimate.m, "time"), Num(0)).n
                     ELSE 0
        logged == IF r.hasLogs THEN reduceHours(r.logs, 0) ELSE 0
    IN [estimated |-> estimated,
        logged |-> logged,
        remaining |-> clampRemaining(estimated, logged)]

(***************************************************************************)
(* The formatters.  An entity is a map from field name to value, a missing *)
(* field being undefined; a member reached through ?. chains is one field  *)
(* ("cvss.score").  A formatted block is the list of its lines before      *)
(* join('\n'); a line is its fixed label and the strings its ${...}        *)
(* placeholders evaluated to.                                              *)
(***************************************************************************)
Line(label, parts) == [label |-> label, parts |-> parts]

Separator == Line("--------------------------------", <<>>)

\* `${v}`
Show(v) == toString(v)

\* `${v || d}`
ShowOr(v, d) == toString(OrElse(v, Str(d)))

Min(a, b) == IF a <= b THEN a ELSE b

\* as substring, returning the whole string
substring_whole(str, start, end) == str

\* String.prototype.substring(start, end), for 0 <= start <= end
substring(str, start, end) == SubSeq(str, start + 1, Min(end, Len(str)))

\* the length at which formatBlock cuts a free-text field
TextLimit == 200

\* as ShowText, with the ellipsis only on a text that was cut
ShowText_whenCut(v) ==
    IF Truthy(v)
    THEN (IF Len(v.s) > TextLimit THEN substring(v.s, 0, TextLimit) \o "..." ELSE v.s)
    ELSE "N/A"

\* `${v ? v.substring(0, 200) + "..." : "N/A"}`
ShowText(v) == IF Truthy(v) THEN substring(v.s, 0, TextLimit) \o "..." ELSE "N/A"

\* what a formatter gives back: its lines, or an exception
Formatted(lines) == [threw |-> FALSE, lines |-> lines]
FormatThrew == [threw |-> TRUE, lines |-> <<>>]

formatFinding(finding) ==
    Formatted(<<
        Line("Finding ID", <<Show(finding["id"])>>),
        Line("Display ID", <<Show(finding["display_id"])>>),
        Line("Name", <<Show(finding["name"])>>),
        Line("Client ID", <<Show(finding["client_id"])>>),
        Line("Round ID", <<Show(finding["round_id"])>>),
        Line("CVSS Score", <<ShowOr(finding["cvss.score"], "N/A")>>),
        Line("Severity", <<ShowOr(finding["cvss.severity_label"], "N/A")>>),
        Line("Status", <<ShowOr(finding["status.label"], "Unknown"),
                         ShowOr(finding["status.description"], "No description")>>),
        Line("Published", <<Show(finding["published"])>>),
        Line("Remediation Complexity", <<ShowOr(finding["remediation_complexity"], "N/A")>>),
        Line("Executive Description", <<ShowOr(finding["executive_description"], "N/A")>>),
        Line("Executive Risk", <<ShowOr(finding["executive_risk"], "N/A")>>),
        Line("Executive Recommendation", <<ShowOr(finding["executive_recommendation"], "N/A")>>),
        Line("Description", <<ShowOr(finding["description"], "N/A")>>),
        Line("Evidence", <<ShowOr(finding["evidence"], "N/A")>>),
        Line("Recommendation", <<ShowOr(finding["recommendation"], "N/A")>>),
        Separator >>)

formatNotification(notification) ==
    Formatted(<<
        Line("Content", <<Show(notification["heading"])>>),
        Line("Created At", <<Show(notification["created_at"])>>),
        Line("Updated At", <<Show(notification["updated_at"])>>),
        Separator >>)

formatPrerequisite(prerequisite) ==
    Formatted(<<
        Line("Prerequisite ID", <<Show(prerequisite["id"])>>),
        Line("Round ID", <<Show(prerequisite["round_id"])>>),
        Line("Name", <<ShowOr(prerequisite["name"], "N/A")>>),
        Line("Description", <<ShowOr(prerequisite["description"], "N/A")>>),
        Line("Required", <<IF prerequisite["required"] # Undef
                           THEN Show(prerequisite["required"]) ELSE "N/A">>),
        Line("Status", <<ShowOr(prerequisite["status"], "N/A")>>),
        Line("Created At", <<ShowOr(prerequisite["created_at"], "N/A")>>),
        Line("Updated At", <<ShowOr(prerequisite["updated_at"], "N/A")>>),
        Separator >>)

formatBlock(block) ==
    Formatted(<<
        Line("Block ID", <<Show(block["id"])>>),
        Line("Name", <<Show(block["name"])>>),
        Line("Round Type ID", <<Show(block["round_type_id"])>>),
        Line("Approved", <<Show(block["approved"])>>),
        Line("Automation Approved", <<Show(block["automation_approved"])>>),
        Line("Used Count", <<Show(block["used_count"])>>),
        Line("Remediation Complexity", <<ShowOr(block["remediation_complexity"], "N/A")>>),
        Line("CVSS Score", <<toString(OrElse(block["ratings.cvss.score"],
                                             OrElse(block["cvss.score"], Str("N/A"))))>>),
        Line("Executive Description", <<ShowText(block["executive_description"])>>),
        Line("Executive Risk", <<ShowText(block["executive_risk"])>>),
        Line("Executive Recommendation", <<ShowText(block["executive_recommendation"])>>),
        Line("Description", <<ShowText(block["description"])>>),
        Line("Evidence", <<ShowText(block["evidence"])>>),
        Line("Recommendation", <<ShowText(block["recommendation"])>>),
        Line("Created At", <<Show(block["created_at"])>>),
        Line("Updated At", <<Show(block["updated_at"])>>),
        Separator >>)

\* response.links.next ? 'Yes' : 'No'
YesNo(v) == IF Truthy(v) THEN "Yes" ELSE "No"

\* v.k for a v that is neither undefined nor null: a member of an object,
\* undefined on a string, number or boolean (which has no such member)
Member(v, k) == IF v.t = "obj" THEN Get(v.m, k) ELSE Undef

\* reading response.links.next throws a TypeError when links is undefined or
\* null, and only then
formatPaginationInfo(resp) ==
    IF resp["links"].t \in {"undef", "null"} THEN FormatThrew
    ELSE Formatted(<<
        Line("Page", <<Show(resp["page"]), Show(resp["total_pages"])>>),
        Line("Total Results", <<Show(resp["total_results"])>>),
        Line("Items Per Page", <<Show(resp["limit"])>>),
        Line("Next Page Available", <<YesNo(Member(resp["links"], "next"))>>),
        Line("Previous Page Available", <<YesNo(Member(resp["links"], "previous"))>>),
        Separator >>)

\* the character of a code unit of an assessment name
NameText(q) ==
    LET Ch(k) == SubSeq("abcdefghijklmnopqrstuvwxyz", k, k)
        F[i \in 0..Len(q)] == IF i = 0 THEN "" ELSE F[i - 1] \o Ch(q[i])
    IN F[Len(q)]

\* Array.prototype.join(sep) on strings
Join(strs, sep) ==
    LET F[i \in 0..Len(strs)] ==
            IF i = 0 THEN ""
            ELSE IF i = 1 THEN strs[1]
            ELSE F[i - 1] \o sep \o strs[i]
    IN F[Len(strs)]

\* the largest number of targets formatRound lists one by one
MaxListedTargets == 5

\* `${t.value} (${t.type})`
ShowTarget(t) == Show(t.value) \o " (" \o Show(t.type) \o ")"

\* round is the entity; nested is its targets?.result.  Reading
\* round.estimate.time throws a TypeError when estimate is missing.
formatRound(round_, nested) ==
    IF round_["estimate"].t \in {"undef", "null"} THEN FormatThrew
    ELSE
    LET assessmentTypes == extractAssessmentTypes(nested)
        actualTargets == extractActualTargets(nested)
        estimate == round_["estimate"].m
        head == <<
            Line("Round ID", <<Show(round_["id"])>>),
            Line("Client ID", <<Show(round_["client_id"])>>),
            Line("Round Type", <<IF round_["round_type_id"] = Num(1) THEN "pentest round"
                                 ELSE IF round_["round_type_id"] = Num(3) THEN "scan round"
                                 ELSE Show(round_["round_type_id"])>>),
            Line("Pod ID", <<ShowOr(round_["pod_id"], "Not assigned")>>),
            Line("Estimated", <<Show(Get(estimate, "time")), Show(Get(estimate, "period"))>>),
            Line("Start Date", <<ShowOr(round_["start_date"], "Unknown")>>),
            Line("End Date", <<ShowOr(round_["end_date"], "Unknown")>>),
            Line("Started", <<Show(round_["started"])>>),
            Line("Completed", <<Show(round_["finished"])>>),
            Line("Name", <<Show(round_["name"])>>),
            Line("Executive Summary Published",
                 <<Show(round_["executive_summary_published"])>>) >>
        types == IF Len(assessmentTypes) > 0
                 THEN <<Line("Assessment Types",
                             <<Join(Map(assessmentTypes, NameText), ", ")>>)>>
                 ELSE <<>>
        targets == IF Len(actualTargets) > 0 /\ Len(actualTargets) <= MaxListedTargets
                   THEN <<Line("Targets", <<Join(Map(actualTargets, ShowTarget), ", ")>>)>>
                   ELSE IF Len(actualTargets) > MaxListedTargets
                   THEN <<Line("Targets configured", <<ToString(Len(actualTargets))>>)>>
                   ELSE <<>>
    IN Formatted(head \o types \o targets \o <<Separator>>)

(***************************************************************************)
(* The entities handed to the formatters.                                  *)
(***************************************************************************)
Kinds == {"round", "finding", "notification", "prerequisite", "block", "pagination"}

\* an entity with every field present
Sample(kind) ==
    CASE kind = "round" ->
           [f \in {"id", "client_id", "round_type_id", "pod_id", "estimate", "start_date",
                   "end_date", "started", "finished", "name",
                   "executive_summary_published"} |->
              CASE f \in {"id", "client_id"} -> Num(7)
                [] f = "round_type_id" -> Num(1)
                [] f = "pod_id" -> Num(2)
                [] f = "estimate" -> Obj(<<Entry("time", Num(5)), Entry("period", Str("days"))>>)
                [] f \in {"start_date", "end_date"} -> Str("2024-01-31")
                [] f \in {"started", "finished", "executive_summary_published"} -> Bool(TRUE)
                [] f = "name" -> Str("Q1 pentest")]
      [] kind = "finding" ->
           [f \in {"id", "display_id", "name", "client_id", "round_id", "cvss.score",
                   "cvss.severity_label", "status.label", "status.description", "published",
                   "remediation_complexity", "executive_description", "executive_risk",
                   "executive_recommendation", "description", "evidence",
                   "recommendation"} |->
              CASE f \in {"id", "client_id", "round_id", "cvss.score",
                          "remediation_complexity"} -> Num(7)
                [] f = "published" -> Bool(TRUE)
                [] OTHER -> Str("text")]
      [] kind = "notification" ->
           [f \in {"heading", "created_at", "updated_at"} |-> Str("2024-01-31")]
      [] kind = "prerequisite" ->
           [f \in {"id", "round_id", "name", "description", "required", "status",
                   "created_at", "updated_at"} |->
              CASE f \in {"id", "round_id"} -> Num(7)
                [] f = "required" -> Bool(FALSE)
                [] OTHER -> Str("text")]
      [] kind = "block" ->
           [f \in {"id", "name", "round_type_id", "approved", "automation_approved",
                   "used_count", "remediation_complexity", "ratings.cvss.score",
                   "cvss.score", "executive_description", "executive_risk",
                   "executive_recommendation", "description", "evidence",
                   "recommendation", "created_at", "updated_at"} |->
              CASE f \in {"id", "round_type_id", "used_count", "remediation_complexity",
                          "ratings.cvss.score", "cvss.score"} -> Num(7)
                [] f \in {"approved", "automation_approved"} -> Bool(TRUE)
                [] OTHER -> Str("text")]
      [] kind = "pagination" ->
           [f \in {"page", "total_pages", "total_results", "limit", "links"} |->
              CASE f = "links" -> Obj(<<Entry("next", JsNull), Entry("previous", JsNull)>>)
                [] OTHER -> Num(1)]

\* the fields the type declarations mark optional (?) or nullable
OptionalFields(kind) ==
    CASE kind = "round" -> {"pod_id", "start_date", "end_date"}
      [] kind = "finding" -> DOMAIN Sample("finding")
      [] kind = "notification" -> DOMAIN Sample("notification")
      [] kind = "prerequisite" -> DOMAIN Sample("prerequisite") \ {"id", "round_id"}
      [] kind = "block" -> {"remediation_complexity", "ratings.cvss.score", "cvss.score",
                            "executive_description", "executive_risk",
                            "executive_recommendation", "description", "evidence",
                            "recommendation"}
      [] kind = "pagination" -> {}

\* the fields an upstream body may lack
Droppable(kind) ==
    CASE kind = "round" -> OptionalFields(kind) \cup {"estimate"}
      [] kind = "pagination" -> {"links"}
      [] OTHER -> OptionalFields(kind)

\* the entity without the fields of S
Drop(entity, S) == [f \in DOMAIN entity |-> IF f \in S THEN Undef ELSE entity[f]]

\* the free-text fields of a block that formatBlock cuts
TextFields == {"executive_description", "executive_risk", "executive_recommendation",
               "description", "evidence", "recommendation"}

RECURSIVE TextBetween(_, _)
\* a text whose character at position i depends on i: positions lo..hi
TextBetween(lo, hi) ==
    IF lo > hi THEN ""
    ELSE IF lo = hi THEN SubSeq("abcdefg", (lo % 7) + 1, (lo % 7) + 1)
    ELSE TextBetween(lo, (lo + hi) \div 2) \o TextBetween(((lo + hi) \div 2) + 1, hi)

\* a text of n characters
Text(n) == TextBetween(1, n)

\* text lengths: around zero and around the cut
Lengths == (0..MaxOver) \cup ((TextLimit - MaxOver)..(TextLimit + MaxOver))

RECURSIVE WithTexts(_, _)
\* the entities that give each field of S a text of some length
WithTexts(S, base) ==
    IF S = {} THEN {base}
    ELSE LET f == CHOOSE x \in S : TRUE
         IN UNION { WithTexts(S \ {f}, [base EXCEPT ![f] = Str(Text(n))]) : n \in Lengths }

\* the subsets of S with at most n elements
Upto(S, n) == {T \in SUBSET S : Cardinality(T) <= n}

\* link values of a response: missing, null, a URL, or a value that is there
\* and falsy (an empty string, 0, false)
LinkValues ==
    {Undef, JsNull, Str("https://app.onsecurity.io/api/v2/rounds?page=2"),
     Str(""), Num(0), Bool(FALSE)}

\* a links member that is no object: null, a string, a number, a boolean
PlainLinks == {JsNull, Str("x"), Num(0), Bool(TRUE)}

Entities(kind) ==
    { Drop(Sample(kind), S) : S \in Upto(Droppable(kind), MaxAbsent) }
      \cup (IF kind = "block"
            THEN UNION { WithTexts(S, Sample(kind)) : S \in Upto(TextFields, MaxFields) }
            ELSE {})
      \cup (IF kind = "pagination"
            THEN { [Sample(kind) EXCEPT
                      !["page"] = Num(p), !["total_pages"] = Num(t),
                      !["links"] = Obj(<<Entry("next", a), Entry("previous", b)>>)] :
                   p \in 1..MaxPage, t \in 1..MaxPage, a \in LinkValues, b \in LinkValues }
                 \cup { [Sample(kind) EXCEPT !["links"] = v] : v \in PlainLinks }
            ELSE {})

\* a nested target with the members both extractors read
FullTarget(hidden, assessment_name, value, typeName, notes) ==
    [hidden |-> hidden, assessment_name |-> assessment_name, value |-> value,
     typeName |-> typeName, notes |-> notes]

FullTargets ==
    { FullTarget(TRUE, <<MaxChar>>, Str("10.0.0.1"), Str("Web Application"), JsNull),
      FullTarget(TRUE, <<1>>, JsNull, Undef, JsNull),
      FullTarget(FALSE, <<>>, Str("example.com"), Undef, Str("prod only")) }

\* what a formatter is handed: the entity and, for a round, its nested targets
FormatInput(kind, entity, nested) == [kind |-> kind, e |-> entity, nested |-> nested]

FormatInputs ==
    UNION { { FormatInput(k, x, Round(FALSE, <<>>)) : x \in Entities(k) } : k \in Kinds }
    \cup { FormatInput("round", x, Round(TRUE, ts)) :
             x \in Entities("round"), ts \in SeqsUpTo(FullTargets, MaxTargets) }

(***************************************************************************)
(* The HTTP transport shell (src/unnamed/part_000): the session table and  *)
(* the POST / GET / DELETE handlers of /mcp.  The table is a plain object  *)
(* keyed by session id; the model keeps its own keys.  A header that is    *)
(* missing is the empty string.  A handler runs up to its first await in   *)
(* one step and is suspended there; other requests and close() run before  *)
(* it resumes.                                                             *)
(***************************************************************************)
\* the n-th id sessionIdGenerator hands out (randomUUID: never one it has
\* handed out before)
SessionId(n) == "session-" \o ToString(n)

\* the ids sessionIdGenerator hands out
SessionPool == {SessionId(i) : i \in 1..MaxSessions}

\* property names every plain object inherits from Object.prototype
InheritedNames ==
    {"constructor", "toString", "toLocaleString", "valueOf", "hasOwnProperty",
     "isPrototypeOf", "propertyIsEnumerable", "__proto__", "__defineGetter__",
     "__defineSetter__", "__lookupGetter__", "__lookupSetter__"}

\* the inherited name that requests carry as a session id
SentNames == {"constructor"}

\* the mcp-session-id header of a request: none, an id of the pool (the id
\* of an open session, of a closed one, or one not handed out yet), or a name
\* the table inherits
HeaderValues == {""} \cup SessionPool \cup SentNames

\* req.body: an initialize request, another JSON-RPC message, or neither
RequestBodies == {"initialize", "request", "malformed"}

\* transports[sessionId]: the transport stored under the id, the inherited
\* member of that name (truthy, not a transport), or undefined
lookup(table, sessionId) ==
    IF sessionId \in table THEN "transport"
    ELSE IF sessionId \in InheritedNames THEN "inherited"
    ELSE "undefined"

\* how a handler answered a request, when it took the request up or when the
\* call it awaited failed: "400" and "500" are its own replies, "transport"
\* is a request handed to a transport, whose handleRequest writes the reply,
\* "none" is no reply at all
Reply(method, sessionId, body, status) ==
    [method |-> method, sid |-> sessionId, body |-> body, status |-> status]

NoReply == Reply("none", "", "malformed", "none")

\* app.post('/mcp'): the reply; calling handleRequest on a value that is not
\* a transport throws a TypeError, which the catch block answers with 500
postStatus(table, sessionId, body) ==
    IF sessionId # "" /\ lookup(table, sessionId) # "undefined"
    THEN (IF lookup(table, sessionId) = "transport" THEN "transport" ELSE "500")
    ELSE IF sessionId = "" /\ body = "initialize" THEN "transport"
    ELSE "400"

\* app.get('/mcp'): the replies it may give; the TypeError is thrown outside
\* any try block, so the rejection goes to the framework, which answers 500
\* or leaves the request unanswered
getStatuses(table, sessionId) ==
    IF sessionId = "" \/ lookup(table, sessionId) = "undefined" THEN {"400"}
    ELSE IF lookup(table, sessionId) = "transport" THEN {"transport"}
    ELSE {"500", "none"}

\* app.delete('/mcp')
deleteStatus(table, sessionId) ==
    IF sessionId = "" \/ lookup(table, sessionId) = "undefined" THEN "400"
    ELSE IF lookup(table, sessionId) = "transport" THEN "transport"
    ELSE "500"

\* a handler suspended at an await: the request it serves (sid is the session
\* of the transport it found, "" for the transport it created), where it
\* waits: at "connect" for mcpServer.connect(transport), at "handle" for
\* transport.handleRequest(req, res), and whether the transport has run the
\* callback this handleRequest leads to (onsessioninitialized, onclose)
Handler(method, sid, body, at, ran) ==
    [method |-> method, sid |-> sid, body |-> body, at |-> at, ran |-> ran]

\* the handler of an initialize POST, which created a transport
Initializing(at, ran) == Handler("POST", "", "initialize", at, ran)

\* the suspended handlers are a bag: one more, one fewer
Enter(w, h) == w (+) SetToBag({h})

Leave(w, h) == w (-) SetToBag({h})

\* where the POST handler first awaits: at connect in the initialize branch
\* (l.95), at handleRequest in the branch of an existing session (l.69)
postAwait(sessionId) == IF sessionId = "" THEN "connect" ELSE "handle"

\* onsessioninitialized: transports[newSessionId] = transport
onsessioninitialized(table, newSessionId) == table \cup {newSessionId}

\* as onclose, forgetting every session when one transport closes
onclose_all(table, sid) == IF sid # "" /\ sid \in table THEN {} ELSE table

\* transport.onclose: if (sid && transports[sid]) delete transports[sid]
onclose(table, sid) == IF sid # "" /\ sid \in table THEN table \ {sid} ELSE table

\* what transport.handleRequest does to the table for the handler h, n ids
\* having been handed out: for the transport of an initialize POST it
\* generates the session id and calls onsessioninitialized; for a DELETE it
\* terminates the session and closes the transport, whose onclose handler
\* runs; for another POST and for a GET it touches no table
handleRequest(table, n, h) ==
    IF h.method = "POST" /\ h.sid = ""
    THEN [transports |-> onsessioninitialized(table, SessionId(n + 1)), generated |-> n + 1]
    ELSE IF h.method = "DELETE"
    THEN [transports |-> onclose(table, h.sid), generated |-> n]
    ELSE [transports |-> table, generated |-> n]

\* the table after a step of the handleRequest that h awaits: the callback
\* runs in this step (acts) unless it has run before
callback(table, n, h, acts) ==
    IF acts /\ ~h.ran THEN handleRequest(table, n, h)
    ELSE [transports |-> table, generated |-> n]

\* the latest reply of the shell once the handleRequest that h awaited has
\* rejected.  POST and DELETE catch the error and answer 500 unless the
\* transport has sent the headers (l.110-121, l.158-164); GET awaits outside
\* any try block, and the rejection goes to the framework, which answers 500
\* or not at all.  answers: a 500 is written
failed(h, answers, latest) ==
    IF answers THEN Reply(h.method, h.sid, h.body, "500") ELSE latest

\* close() has not been called.  keys are the ids the for...in loop set out
\* to visit, todo those it has yet to finish with, closing the id whose
\* transport.close() it awaits ("": none), visited those it has finished
\* with, in order, each with how it went: transport.close() resolved
\* ("closed") or threw ("throws"), or the key had been deleted by the time
\* the loop came to it ("gone")
NoShutdown ==
    [phase |-> "running", keys |-> {}, todo |-> {}, closing |-> "", visited |-> <<>>]

Visit(sid, outcome) == [sid |-> sid, outcome |-> outcome]

\* the catch block of close(): the error is logged and the loop goes on
caught(todo, sid) == todo \ {sid}

\* the loop of close() comes to session sid: a key deleted since the loop
\* began is passed over; otherwise it calls transports[sid].close() and is
\* suspended at the await.  The transport may run its onclose handler before
\* close() first yields (early) or later.
closeTransport(table, sd, sid, early) ==
    IF sid \notin table
    THEN [transports |-> table,
          shutdown |-> [sd EXCEPT !.todo = @ \ {sid},
                                  !.visited = Append(@, Visit(sid, "gone"))]]
    ELSE [transports |-> IF early THEN onclose(table, sid) ELSE table,
          shutdown |-> [sd EXCEPT !.closing = sid]]

\* the loop of close() resumes: transport.close() resolved, and the loop
\* deletes the key, or it threw, and the catch block logs the error; a close
\* that threw may or may not have run the onclose handler
closeSettled(table, sd, outcome, ranOnclose) ==
    IF outcome = "closed"
    THEN [transports |-> onclose(table, sd.closing) \ {sd.closing},
          shutdown |-> [sd EXCEPT !.todo = @ \ {sd.closing}, !.closing = "",
                                  !.visited = Append(@, Visit(sd.closing, "closed"))]]
    ELSE [transports |-> IF ranOnclose THEN onclose(table, sd.closing) ELSE table,
          shutdown |-> [sd EXCEPT !.todo = caught(@, sd.closing), !.closing = "",
                                  !.visited = Append(@, Visit(sd.closing, "throws"))]]

(***************************************************************************)
(* State.                                                                  *)
(***************************************************************************)
VARIABLES
    pc,       \* where the running invocation is: idle, primary, finding, round, pod, done
    tool,     \* the tool invoked ("fetchPage": a direct call of the utility copy)
    params,   \* the parameter object the caller sent
    impl,     \* what built the latest request: the fetchPage of "index", "util" or
              \* "types", or "direct" (a literal url)
    args,     \* the arguments of the latest fetchPage call
    path,     \* the path of the latest GET, after the API base
    query,    \* the query of the latest GET
    sent,     \* GETs issued by the running invocation
    fetched,  \* the latest completed GET: its outcome, body and what the caller got;
              \* n counts the GETs of the running invocation that have completed
    response, \* the handler's `response`: what its primary fetch gave it
    result,   \* what the handler gave back
    fan,      \* the working data of get-platform-tasks
    log,      \* the GETs of the running invocation, in the order it issued them
    round,    \* the round (or other entity) handed to an extractor or formatter
    extracted, \* what the extractor or formatter returned
    transports, \* the session table of the HTTP shell: the ids it holds a transport for
    reply,    \* the latest request to /mcp and how it was answered
    waiting,  \* the handlers of the HTTP shell that are suspended at an await
    generated,   \* how many session ids the transports have generated
    shutdown, \* how far close() of the HTTP shell has got
    other     \* a second invocation, suspended at an await or returned

\* the invocation pipeline and the extractor harness
pipe == <<pc, tool, params, impl, args, path, query, sent, fetched, response, result, fan,
         log>>
ext == <<round, extracted>>
srv == <<transports, reply, waiting, generated, shutdown>>
vars == <<pc, tool, params, impl, args, path, query, sent, fetched, response, result, fan,
          log, round, extracted, transports, reply, waiting, generated, shutdown, other>>

NoArgs == Args("", Undef, <<>>, Undef, Undef, Undef, Undef, Undef)
NoFetch ==
    [outcome |-> "none", body |-> Null, ret |-> [threw |-> FALSE, value |-> Null], n |-> 0]
NoResponse == [got |-> FALSE, value |-> Null]

\* a GET as the log keeps it: which await issued it, for which id, the url,
\* and how it ended once it has
Request(kind, id, url, q) ==
    [kind |-> kind, id |-> id, path |-> url, query |-> q, outcome |-> "pending"]

Idle ==
    /\ pc = "idle"
    /\ tool = "none"
    /\ params = NoParams
    /\ impl = "none"
    /\ args = NoArgs
    /\ path = ""
    /\ query = <<>>
    /\ sent = 0
    /\ fetched = NoFetch
    /\ response = NoResponse
    /\ result = NoResult
    /\ fan = NoFan
    /\ log = <<>>

\* no extractor is running
NoRound ==
    /\ round = Round(FALSE, <<>>)
    /\ extracted = [done |-> FALSE, assessmentTypes |-> <<>>]

\* no session is open and no request has been made
NoSessions ==
    /\ transports = {}
    /\ reply = NoReply
    /\ waiting = EmptyBag
    /\ generated = 0
    /\ shutdown = NoShutdown

\* an invocation at rest: the values of the pipeline variables of Idle
NoOther ==
    [pc |-> "idle", tool |-> "none", params |-> NoParams, impl |-> "none", args |-> NoArgs,
     path |-> "", query |-> <<>>, sent |-> 0, fetched |-> NoFetch, response |-> NoResponse,
     result |-> NoResult, fan |-> NoFan, log |-> <<>>]

\* no second invocation has been made
Alone == other = NoOther

Init == Idle /\ NoRound /\ NoSessions /\ Alone

(***************************************************************************)
(* A tool is invoked: the handler runs up to its first await.              *)
(***************************************************************************)
\* a list tool: build the filters, call fetchPage, which issues the GET
Start(t) ==
    /\ pc = "idle"
    /\ \E p \in Calls(t) :
         LET a == HandlerArgs(t, WithDefaults(t, p))
         IN /\ params' = p
            /\ args' = a
            /\ path' = a.basePath
            /\ query' = fetchPageOf(t, a)
            /\ log' = <<Request("primary", 0, a.basePath, fetchPageOf(t, a))>>
    /\ tool' = t
    /\ impl' = Copy(t)
    /\ sent' = 1
    /\ pc' = "primary"
    /\ UNCHANGED <<fetched, response, result, fan, round, extracted, srv, other>>

GetRounds == Start("get-rounds")
GetFindings == Start("get-findings")
GetNotifications == Start("get-notifications")
GetPrerequisites == Start("get-prerequisites")
GetBlocks == Start("get-blocks")
GetRoundAutomations == Start("get-round-automations")
GetRoundArtifacts == Start("get-round-artifacts")
GetVulnerabilityTrends == Start("get-vulnerability-trends")
GetReportTemplates == Start("get-report-templates")
GetPlatformPods == Start("get-platform-pods")
GetPlatformTasks == Start("get-platform-tasks")
GetTimeLogs == Start("get-time-logs")
GetAllRounds == Start("get-all-rounds")
GetAllFindings == Start("get-all-findings")
GetAllNotifications == Start("get-all-notifications")

\* get-round-summary requests rounds/{id}?include=... itself
GetRoundSummary ==
    /\ pc = "idle"
    /\ \E p \in Calls("get-round-summary") :
         LET q == WithDefaults("get-round-summary", p)
         IN /\ params' = p
            /\ path' = "rounds/" \o toString(q["round_id"])
            /\ query' = <<Param("include", roundSummaryIncludes(q))>>
            /\ log' = <<Request("primary", 0, "rounds/" \o toString(q["round_id"]),
                            <<Param("include", roundSummaryIncludes(q))>>)>>
    /\ tool' = "get-round-summary"
    /\ impl' = "direct"
    /\ args' = NoArgs
    /\ sent' = 1
    /\ pc' = "primary"
    /\ UNCHANGED <<fetched, response, result, fan, round, extracted, srv, other>>

\* the resource round/{roundId}/full-context is read: its callback requests
\* rounds/{roundId}?include=... itself
ReadFullContext ==
    /\ pc = "idle"
    /\ \E p \in Reads :
         /\ params' = p
         /\ path' = "rounds/" \o toString(p["roundId"])
         /\ log' = <<Request("primary", 0, "rounds/" \o toString(p["roundId"]),
                         <<Param("include", fullContextIncludes)>>)>>
    /\ query' = <<Param("include", fullContextIncludes)>>
    /\ tool' = FullContext
    /\ impl' = "direct"
    /\ args' = NoArgs
    /\ sent' = 1
    /\ pc' = "primary"
    /\ UNCHANGED <<fetched, response, result, fan, round, extracted, srv, other>>

\* the arguments of a direct call of the utility fetchPage
UtilCalls ==
    LET names == {"page", "limit", "sort", "includes", "fields", "search", "filters"}
        ps == UNION { Assign(S, NoParams) :
                        S \in {T \in SUBSET names : Cardinality(T) <= MaxArgs} }
    IN { Args(b, p["page"], p["filters"].m, p["sort"], p["includes"], p["fields"],
              p["limit"], p["search"]) : b \in {"rounds", "findings"}, p \in ps }

\* the exported fetchPage of the utility module is called
CallFetchPageUtil ==
    /\ pc = "idle"
    /\ \E a \in UtilCalls :
         /\ args' = a
         /\ path' = a.basePath
         /\ query' = fetchPageUtil(a)
         /\ log' = <<Request("primary", 0, a.basePath, fetchPageUtil(a))>>
    /\ tool' = "fetchPage"
    /\ impl' = "util"
    /\ sent' = 1
    /\ pc' = "primary"
    /\ UNCHANGED <<params, fetched, response, result, fan, round, extracted, srv, other>>

(***************************************************************************)
(* A GET completes: the handler runs on to its next await or to its end.   *)
(***************************************************************************)
RECURSIVE NextLookup_roundsFirst(_, _, _)
RECURSIVE NextLookup(_, _, _)
\* as NextLookup, with the round loop ahead of the finding loop: the rounds
\* that only a finding names are never looked up
NextLookup_roundsFirst(f, phase, cur) ==
    CASE phase = "finding" ->
           IF cur = 1 /\ f.roundIdToPodMap = <<>> /\ f.roundIds # <<>>
           THEN [pc |-> "round", fan |-> [f EXCEPT !.cur = 1]]
           ELSE IF cur <= Len(f.findingIds)
           THEN [pc |-> "finding", fan |-> [f EXCEPT !.cur = cur]]
           ELSE NextLookup_roundsFirst(
                    [f EXCEPT !.podIds = uniquePodIds(f.roundIdToPodMap)], "pod", 1)
      [] phase = "round" ->
           IF cur <= Len(f.roundIds)
           THEN [pc |-> "round", fan |-> [f EXCEPT !.cur = cur]]
           ELSE NextLookup_roundsFirst(f, "finding", 1)
      [] phase = "pod" ->
           IF cur <= Len(f.podIds)
           THEN [pc |-> "pod", fan |-> [f EXCEPT !.cur = cur]]
           ELSE [pc |-> "done", fan |-> [f EXCEPT !.cur = 0]]

\* the three loops of get-platform-tasks: the next lookup to issue, if any
NextLookup(f, phase, cur) ==
    CASE phase = "finding" ->
           IF cur <= Len(f.findingIds)
           THEN [pc |-> "finding", fan |-> [f EXCEPT !.cur = cur]]
           ELSE NextLookup(f, "round", 1)
      [] phase = "round" ->
           IF cur <= Len(f.roundIds)
           THEN [pc |-> "round", fan |-> [f EXCEPT !.cur = cur]]
           ELSE NextLookup([f EXCEPT !.podIds = uniquePodIds(f.roundIdToPodMap)], "pod", 1)
      [] phase = "pod" ->
           IF cur <= Len(f.podIds)
           THEN [pc |-> "pod", fan |-> [f EXCEPT !.cur = cur]]
           ELSE [pc |-> "done", fan |-> [f EXCEPT !.cur = 0]]

\* as handleNull, with the null check missing: the handler reads a member of null
handleNull_throws(t) == Thrown

\* the `if (!response) return { content: [{ type: "text", text: "Error ..." }] }` branch
handleNull(t) == TextResult(ErrorText(t), <<>>)

\* as newTables, with the tables kept at module level: an invocation finds
\* in them what the other invocation has put there
newTables_shared(tasks) == [other.fan EXCEPT !.tasks = tasks, !.cur = 0, !.answers = <<>>]

\* the tables of get-platform-tasks, declared empty inside the handler
newTables(tasks) == [NoFan EXCEPT !.tasks = tasks]

\* the handler after its primary fetch: where it goes and what it returns
\* (p: the parameter object it was called with)
AfterPrimary(t, p, ret) ==
    IF t = "fetchPage" THEN [pc |-> "done", fan |-> NoFan, result |-> NoResult]
    ELSE IF ret.threw THEN [pc |-> "done", fan |-> NoFan, result |-> Thrown]
    ELSE IF t = FullContext
      THEN [pc |-> "done", fan |-> NoFan, result |-> fullContext(p["roundId"], ret.value)]
    ELSE IF ret.value = Null THEN [pc |-> "done", fan |-> NoFan, result |-> handleNull(t)]
    ELSE IF Throws(t, ret.value) THEN [pc |-> "done", fan |-> NoFan, result |-> Thrown]
    ELSE IF t = "get-platform-tasks"
      THEN LET f0 == extractIds(ret.value.result, newTables(ret.value.result))
               c == NextLookup(f0, "finding", 1)
           IN [pc |-> c.pc, fan |-> c.fan,
               result |-> IF c.pc = "done" THEN tasksResult(c.fan) ELSE NoResult]
    ELSE [pc |-> "done", fan |-> NoFan, result |-> TextResult(Heading(t, ret.value), <<>>)]

\* as issued, with the fetches of a loop started together and awaited as one
issued_together(c) ==
    CASE c.pc = "finding" -> Len(c.fan.findingIds) - c.fan.cur + 1
      [] c.pc = "round" -> Len(c.fan.roundIds) - c.fan.cur + 1
      [] c.pc = "pod" -> Len(c.fan.podIds) - c.fan.cur + 1

\* the GETs an iteration of a lookup loop starts before it awaits: its own
issued(c) == 1

\* the GET a lookup loop issues for the id it has reached
lookupRequest(c) ==
    CASE c.pc = "finding" ->
           [path |-> "findings/" \o ToString(c.fan.findingIds[c.fan.cur]), query |-> <<>>,
            impl |-> "direct", args |-> NoArgs, id |-> c.fan.findingIds[c.fan.cur]]
      [] c.pc = "round" ->
           [path |-> "rounds/" \o ToString(c.fan.roundIds[c.fan.cur]), query |-> <<>>,
            impl |-> "direct", args |-> NoArgs, id |-> c.fan.roundIds[c.fan.cur]]
      [] c.pc = "pod" ->
           [path |-> "platform/pods",
            query |-> fetchPage(podLookupArgs(c.fan.podIds[c.fan.cur])),
            impl |-> "index", args |-> podLookupArgs(c.fan.podIds[c.fan.cur]),
            id |-> c.fan.podIds[c.fan.cur]]

\* the GET that was outstanding has ended with the given outcome
Settle(q, outcome) == [q EXCEPT ![Len(q)].outcome = outcome]

\* the handler moves to c after its outstanding GET ended: it issues the
\* lookup c names, or it is done
Continue(c, outcome) ==
    /\ pc' = c.pc
    /\ fan' = c.fan
    /\ result' = c.result
    /\ IF c.pc = "done"
       THEN /\ log' = Settle(log, outcome)
            /\ UNCHANGED <<path, query, impl, args, sent>>
       ELSE LET r == lookupRequest(c)
            IN /\ path' = r.path
               /\ query' = r.query
               /\ impl' = r.impl
               /\ args' = r.args
               /\ sent' = sent + issued(c)
               /\ log' = Append(Settle(log, outcome), Request(c.pc, r.id, r.path, r.query))

\* what the upstream may answer when the GET is answered at all
Answers(outcome, bodies) == IF outcome = "ok" THEN bodies ELSE {Null}

PrimaryBodies(t) ==
    IF t = "fetchPage" THEN {Null, Page(TRUE, TRUE, <<>>)} ELSE Bodies(t)

\* the primary fetch of the running invocation completes
PrimaryCompletesWith(bodies) ==
    /\ pc = "primary"
    /\ \E outcome \in Outcomes : \E body \in Answers(outcome, bodies) :
         LET ret == makeOnSecurityRequest(outcome, body)
         IN /\ fetched' = [outcome |-> outcome, body |-> body, ret |-> ret, n |-> fetched.n + 1]
            /\ response' = [got |-> ~ret.threw, value |-> ret.value]
            /\ Continue(AfterPrimary(tool, params, ret), outcome)
    /\ UNCHANGED <<tool, params, round, extracted, srv, other>>

PrimaryCompletes == PrimaryCompletesWith(PrimaryBodies(tool))

\* task urls that match one of the three patterns, or none
TaskUrls ==
    { u \in Urls : Cardinality({k \in {"tests", "findings", "prereq"} : u[k] # 0}) <= 1 }

\* the urls of the tasks of a page whose types alternate
GroupUrls == { u \in TaskUrls : u.tests = 1 \/ u.findings = 1 \/ u.prereq = MaxId }

\* the types of the tasks of such a page, a known one and an unknown one:
\* the type of the first and third task, and the type of the second
GroupTypes == {<<1, 9>>, <<9, 1>>}

\* pages of three tasks, the second of another type than the first and third
AlternatingPages ==
    { Page(TRUE, TRUE, <<Task(u, t[1]), Task(v, t[2]), Task(w, t[1])>>) :
        u \in GroupUrls, v \in GroupUrls, w \in GroupUrls, t \in GroupTypes }

\* pages of tasks, as get-platform-tasks gets them from platform/tasks: up
\* to MaxTasks tasks of one type, or three tasks of alternating types
TaskPages ==
    {Null} \cup { Page(TRUE, TRUE, r) :
                    r \in SeqsUpTo({Task(u, 1) : u \in TaskUrls}, MaxTasks) }
           \cup AlternatingPages

\* get-platform-tasks is called without arguments
CallPlatformTasks == GetPlatformTasks /\ params' = NoParams

\* its page of tasks arrives
TasksPageCompletes == tool = "get-platform-tasks" /\ PrimaryCompletesWith(TaskPages)

\* after a lookup of get-platform-tasks: the next lookup, or the rendered text
AfterLookup(f, phase, cur) ==
    LET c == NextLookup(f, phase, cur)
    IN [pc |-> c.pc, fan |-> c.fan,
        result |-> IF c.pc = "done" THEN tasksResult(c.fan) ELSE NoResult]

\* a findings/{id} lookup completes (inside try/catch)
FindingCompletes ==
    /\ pc = "finding"
    /\ \E outcome \in Outcomes :
       \E body \in Answers(outcome, {Null} \cup {Single(r, 0) : r \in 0..MaxId}) :
         LET ret == makeOnSecurityRequest(outcome, body)
             id == fan.findingIds[fan.cur]
             found == ~ret.threw /\ ret.value # Null /\ ret.value.round_id # 0
             seen == [fan EXCEPT !.answers = Assign1(@, <<"finding", id>>, ret.value)]
             f == IF found
                  THEN [seen EXCEPT
                          !.findingToRoundMap = Assign1(@, id, ret.value.round_id),
                          !.roundIds = SetAdd(@, ret.value.round_id)]
                  ELSE [seen EXCEPT !.findingToRoundMap = Assign1(@, id, 0)]
         IN /\ fetched' = [outcome |-> outcome, body |-> body, ret |-> ret, n |-> fetched.n + 1]
            /\ Continue(AfterLookup(f, "finding", fan.cur + 1), outcome)
    /\ UNCHANGED <<tool, params, response, round, extracted, srv, other>>

\* a rounds/{id} lookup completes (inside try/catch)
RoundCompletes ==
    /\ pc = "round"
    /\ \E outcome \in Outcomes :
       \E body \in Answers(outcome, {Null} \cup {Single(0, q) : q \in 0..MaxId}) :
         LET ret == makeOnSecurityRequest(outcome, body)
             id == fan.roundIds[fan.cur]
             found == ~ret.threw /\ ret.value # Null /\ ret.value.pod_id # 0
             f == [fan EXCEPT !.answers = Assign1(@, <<"round", id>>, ret.value),
                              !.roundIdToPodMap =
                                 Assign1(@, id, IF found THEN ret.value.pod_id ELSE 0)]
         IN /\ fetched' = [outcome |-> outcome, body |-> body, ret |-> ret, n |-> fetched.n + 1]
            /\ Continue(AfterLookup(f, "round", fan.cur + 1), outcome)
    /\ UNCHANGED <<tool, params, response, round, extracted, srv, other>>

\* a platform/pods lookup completes (inside try/catch): podCache keeps
\* whether a pod record was found
PodCompletes ==
    /\ pc = "pod"
    /\ \E outcome \in Outcomes :
       \E body \in Answers(outcome, {Null, Page(TRUE, FALSE, <<>>), Page(TRUE, TRUE, <<>>),
                                     Page(TRUE, TRUE, <<Item(TRUE, NoUrl)>>)}) :
         LET ret == makeOnSecurityRequest(outcome, body)
             id == fan.podIds[fan.cur]
             found == /\ ~ret.threw
                      /\ ret.value # Null
                      /\ ret.value.hasResult
                      /\ Len(ret.value.result) > 0
             f == [fan EXCEPT !.answers = Assign1(@, <<"pod", id>>, ret.value),
                              !.podCache = Assign1(@, id, found)]
         IN /\ fetched' = [outcome |-> outcome, body |-> body, ret |-> ret, n |-> fetched.n + 1]
            /\ Continue(AfterLookup(f, "pod", fan.cur + 1), outcome)
    /\ UNCHANGED <<tool, params, response, round, extracted, srv, other>>

\* the result goes back to the client; the invocation's data is dropped
Finish ==
    /\ pc = "done"
    /\ pc' = "idle"
    /\ tool' = "none"
    /\ params' = NoParams
    /\ impl' = "none"
    /\ args' = NoArgs
    /\ path' = ""
    /\ query' = <<>>
    /\ sent' = 0
    /\ fetched' = NoFetch
    /\ response' = NoResponse
    /\ result' = NoResult
    /\ fan' = NoFan
    /\ log' = <<>>
    /\ UNCHANGED <<round, extracted, srv, other>>

(***************************************************************************)
(* The extractors, applied to a round.                                     *)
(***************************************************************************)
InitExtract ==
    /\ Idle
    /\ NoSessions
    /\ Alone
    /\ round \in Rounds
    /\ extracted = [done |-> FALSE, assessmentTypes |-> <<>>]

ExtractAssessmentTypes ==
    /\ ~extracted.done
    /\ extracted' = [done |-> TRUE, assessmentTypes |-> extractAssessmentTypes(round)]
    /\ UNCHANGED <<round, pipe, srv, other>>

NextExtract == ExtractAssessmentTypes

SpecExtract == InitExtract /\ [][NextExtract]_vars

InitTargets ==
    /\ Idle
    /\ NoSessions
    /\ Alone
    /\ round \in ValueRounds
    /\ extracted = [done |-> FALSE, actualTargets |-> <<>>]

ExtractActualTargets ==
    /\ ~extracted.done
    /\ extracted' = [done |-> TRUE, actualTargets |-> extractActualTargets(round)]
    /\ UNCHANGED <<round, pipe, srv, other>>

NextTargets == ExtractActualTargets

SpecTargets == InitTargets /\ [][NextTargets]_vars

InitTime ==
    /\ Idle
    /\ NoSessions
    /\ Alone
    /\ round \in TimedRounds
    /\ extracted = [done |-> FALSE, timeData |-> [estimated |-> 0, logged |-> 0, remaining |-> 0]]

ExtractTimeData ==
    /\ ~extracted.done
    /\ extracted' = [done |-> TRUE, timeData |-> extractTimeData(round)]
    /\ UNCHANGED <<round, pipe, srv, other>>

NextTime == ExtractTimeData

SpecTime == InitTime /\ [][NextTime]_vars

InitFormat ==
    /\ Idle
    /\ NoSessions
    /\ Alone
    /\ round \in FormatInputs
    /\ extracted = [done |-> FALSE, out |-> Formatted(<<>>)]

\* the formatter of kind k runs on the entity
Format(k, out) ==
    /\ ~extracted.done
    /\ round.kind = k
    /\ extracted' = [done |-> TRUE, out |-> out]
    /\ UNCHANGED <<round, pipe, srv, other>>

FormatRound == Format("round", formatRound(round.e, round.nested))
FormatFinding == Format("finding", formatFinding(round.e))
FormatNotification == Format("notification", formatNotification(round.e))
FormatPrerequisite == Format("prerequisite", formatPrerequisite(round.e))
FormatBlock == Format("block", formatBlock(round.e))
FormatPaginationInfo == Format("pagination", formatPaginationInfo(round.e))

NextFormat ==
    \/ FormatRound
    \/ FormatFinding
    \/ FormatNotification
    \/ FormatPrerequisite
    \/ FormatBlock
    \/ FormatPaginationInfo

SpecFormat == InitFormat /\ [][NextFormat]_vars

(***************************************************************************)
(* The utility fetchPage, applied to a resource and a filter map.          *)
(***************************************************************************)
\* filter maps of up to MaxEntries entries: objects that were given their
\* keys in any order
OrderedFilterMaps == { m \in SeqsUpTo(FilterEntries, MaxEntries) : InKeyOrder(m) }

InitFilters ==
    /\ Idle
    /\ NoSessions
    /\ Alone
    /\ round \in [basePath : {"rounds", "findings", "prerequisites"},
                  filters : OrderedFilterMaps]
    /\ extracted = [done |-> FALSE, query |-> <<>>]

\* fetchPage(basePath, 1, filters) of the utility module is called: it
\* builds its query and issues the GET in the same run, and the promise it
\* returns is pending on that GET
BuildQueryUtil ==
    /\ pc = "idle"
    /\ ~extracted.done
    /\ LET a == Args(round.basePath, Num(1), round.filters, Undef, Undef, Undef, Undef, Undef)
       IN /\ extracted' = [done |-> TRUE, query |-> fetchPageUtil(a)]
          /\ args' = a
          /\ path' = a.basePath
          /\ query' = fetchPageUtil(a)
          /\ log' = <<Request("primary", 0, a.basePath, fetchPageUtil(a))>>
    /\ tool' = "fetchPage"
    /\ impl' = "util"
    /\ sent' = 1
    /\ pc' = "primary"
    /\ UNCHANGED <<params, fetched, response, result, fan, round, srv, other>>

NextFilters ==
    \/ BuildQueryUtil
    \/ PrimaryCompletes

SpecFilters == InitFilters /\ [][NextFilters]_vars

(***************************************************************************)
(* The HTTP shell serves a request.                                        *)
(***************************************************************************)
\* close() is not running: it has not been called, it has returned, or it
\* is suspended at an await.  Only then does a request handler or a callback
\* run (one thread, each run to its next await)
Yielded == shutdown.phase \in {"running", "closed"} \/ shutdown.closing # ""

\* the suspended handlers are few
Room == BagCardinality(waiting) < MaxWaiting

\* the sessions that suspended initialize handlers have yet to open
Opening ==
    CopiesIn(Initializing("connect", FALSE), waiting)
    + CopiesIn(Initializing("handle", FALSE), waiting)

\* POST /mcp, up to the reply or the first await.  The handler of an
\* initialize request without a session id creates a transport and awaits
\* mcpServer.connect(transport); the handler of a request on a session awaits
\* the handleRequest of its transport.
PostMcp ==
    /\ Yielded
    /\ \E sessionId \in HeaderValues : \E body \in RequestBodies :
         LET status == postStatus(transports, sessionId, body)
         IN /\ reply' = Reply("POST", sessionId, body, status)
            /\ IF status = "transport"
               THEN /\ Room
                    /\ sessionId = "" => generated + Opening < MaxSessions
                    /\ waiting' = Enter(waiting, Handler("POST", sessionId, body,
                                                         postAwait(sessionId), FALSE))
               ELSE waiting' = waiting
    /\ UNCHANGED <<transports, generated, shutdown, pipe, ext, other>>

\* the mcpServer.connect an initialize handler awaits settles.  Resolved: the
\* handler resumes, calls transport.handleRequest and awaits it; the
\* transport may call onsessioninitialized before handleRequest first waits
\* (early) or later.  Rejected: the catch block answers 500 and the handler
\* returns without a session
Connected ==
    /\ Yielded
    /\ BagIn(Initializing("connect", FALSE), waiting)
    /\ \E outcome \in {"resolved", "rejected"} : \E early \in BOOLEAN :
         LET h == Initializing("handle", early)
             d == callback(transports, generated, Initializing("handle", FALSE), early)
         IN IF outcome = "resolved"
            THEN /\ waiting' = Enter(Leave(waiting, Initializing("connect", FALSE)), h)
                 /\ transports' = d.transports
                 /\ generated' = d.generated
                 /\ reply' = reply
            ELSE /\ ~early
                 /\ waiting' = Leave(waiting, Initializing("connect", FALSE))
                 /\ reply' = failed(Initializing("connect", FALSE), TRUE, reply)
                 /\ UNCHANGED <<transports, generated>>
    /\ UNCHANGED <<shutdown, pipe, ext, other>>

\* GET /mcp: the SSE stream of a session, up to the reply or the await
GetMcp ==
    /\ Yielded
    /\ \E sessionId \in HeaderValues : \E status \in getStatuses(transports, sessionId) :
         /\ reply' = Reply("GET", sessionId, "malformed", status)
         /\ IF status = "transport"
            THEN /\ Room
                 /\ waiting' = Enter(waiting, Handler("GET", sessionId, "malformed", "handle",
                                                      FALSE))
            ELSE waiting' = waiting
    /\ UNCHANGED <<transports, generated, shutdown, pipe, ext, other>>

\* DELETE /mcp, up to the reply or the await: the handler hands the request
\* to the transport of the session, which may close, and run its onclose
\* handler, before handleRequest first waits (early) or later
DeleteMcp ==
    /\ Yielded
    /\ \E sessionId \in HeaderValues : \E early \in BOOLEAN :
         LET status == deleteStatus(transports, sessionId)
             h == Handler("DELETE", sessionId, "malformed", "handle", early)
             d == callback(transports, generated, [h EXCEPT !.ran = FALSE], early)
         IN /\ reply' = Reply("DELETE", sessionId, "malformed", status)
            /\ IF status = "transport"
               THEN /\ Room
                    /\ waiting' = Enter(waiting, h)
                    /\ transports' = d.transports
               ELSE /\ ~early
                    /\ waiting' = waiting
                    /\ transports' = transports
    /\ UNCHANGED <<generated, shutdown, pipe, ext, other>>

\* the handleRequest a handler awaits settles, and the handler returns.
\* Resolved: the transport has answered, and has run its callback by now.
\* Rejected: the callback may or may not have run, and the shell answers as
\* failed says
Handled ==
    /\ Yielded
    /\ \E h \in BagToSet(waiting) : \E outcome \in {"resolved", "rejected"} :
       \E acts \in BOOLEAN : \E answers \in BOOLEAN :
         /\ h.at = "handle"
         /\ outcome = "resolved" => (acts /\ ~answers)
         /\ LET d == callback(transports, generated, h, acts)
            IN /\ transports' = d.transports
               /\ generated' = d.generated
         /\ waiting' = Leave(waiting, h)
         /\ reply' = failed(h, answers, reply)
    /\ UNCHANGED <<shutdown, pipe, ext, other>>

\* close() is called: its for...in loop sets out over the ids in the table
Close ==
    /\ shutdown.phase = "running"
    /\ shutdown' = [NoShutdown EXCEPT !.phase = "closing", !.keys = transports,
                                      !.todo = transports]
    /\ UNCHANGED <<transports, reply, waiting, generated, pipe, ext, other>>

\* the loop of close() comes to an id: it passes over a key deleted since, or
\* calls close() on the transport and awaits it
CloseTransport ==
    /\ shutdown.phase = "closing"
    /\ shutdown.closing = ""
    /\ \E sid \in shutdown.todo : \E early \in BOOLEAN :
         LET c == closeTransport(transports, shutdown, sid, early)
         IN /\ transports' = c.transports
            /\ shutdown' = c.shutdown
    /\ UNCHANGED <<reply, waiting, generated, pipe, ext, other>>

\* the close() the loop awaits resolves or throws, and the loop resumes
CloseSettles ==
    /\ shutdown.phase = "closing"
    /\ shutdown.closing # ""
    /\ \E outcome \in {"closed", "throws"} : \E ranOnclose \in BOOLEAN :
         LET c == closeSettled(transports, shutdown, outcome, ranOnclose)
         IN /\ transports' = c.transports
            /\ shutdown' = c.shutdown
    /\ UNCHANGED <<reply, waiting, generated, pipe, ext, other>>

\* the loop of close() is over and close() returns
CloseReturns ==
    /\ shutdown.phase = "closing"
    /\ shutdown.closing = ""
    /\ shutdown.todo = {}
    /\ shutdown' = [shutdown EXCEPT !.phase = "closed"]
    /\ UNCHANGED <<transports, reply, waiting, generated, pipe, ext, other>>

NextHttp ==
    \/ PostMcp
    \/ Connected
    \/ GetMcp
    \/ DeleteMcp
    \/ Handled
    \/ Close
    \/ CloseTransport
    \/ CloseSettles
    \/ CloseReturns

SpecHttp == Init /\ [][NextHttp]_vars

(***************************************************************************)
(* Two invocations.  The pipeline variables hold the invocation that runs; *)
(* other holds one that waits at an await, or one that has returned.       *)
(***************************************************************************)
\* the running invocation, as other keeps an invocation
Running ==
    [pc |-> pc, tool |-> tool, params |-> params, impl |-> impl, args |-> args,
     path |-> path, query |-> query, sent |-> sent, fetched |-> fetched,
     response |-> response, result |-> result, fan |-> fan, log |-> log]

\* the invocation inv runs next
Resume(inv) ==
    /\ pc' = inv.pc
    /\ tool' = inv.tool
    /\ params' = inv.params
    /\ impl' = inv.impl
    /\ args' = inv.args
    /\ path' = inv.path
    /\ query' = inv.query
    /\ sent' = inv.sent
    /\ fetched' = inv.fetched
    /\ response' = inv.response
    /\ result' = inv.result
    /\ fan' = inv.fan
    /\ log' = inv.log

\* the event loop turns from the running invocation to the other one
Switch ==
    /\ Running # other
    /\ other' = Running
    /\ Resume(other)
    /\ UNCHANGED <<ext, srv>>

\* pages of one task
OneTaskPages == {Null} \cup { Page(TRUE, TRUE, <<Task(u, 1)>>) : u \in TaskUrls }

OneTaskPageCompletes == tool = "get-platform-tasks" /\ PrimaryCompletesWith(OneTaskPages)

\* two invocations of get-platform-tasks, interleaved at their awaits
NextTwo ==
    \/ CallPlatformTasks
    \/ OneTaskPageCompletes
    \/ FindingCompletes
    \/ RoundCompletes
    \/ PodCompletes
    \/ Finish
    \/ Switch

SpecTwo == Init /\ [][NextTwo]_vars

\* task urls that name a finding or, under /tests/, a round
NamingUrls == { u \in TaskUrls : u.tests # 0 \/ u.findings # 0 }

\* pages of two tasks that each name a finding or a round
TwoTaskPages ==
    {Null} \cup { Page(TRUE, TRUE, <<Task(u, 1), Task(v, 1)>>) :
                    u \in NamingUrls, v \in NamingUrls }

\* the lists hold the same elements, each as often
SameElements(a, b) ==
    /\ Len(a) = Len(b)
    /\ \A x \in Range(a) :
         Cardinality({i \in 1..Len(a) : a[i] = x}) = Cardinality({i \in 1..Len(b) : b[i] = x})

\* the upstream answers the running invocation as it answered the earlier
\* one: the same task page, its tasks in any order, and the same answer for
\* each finding, round and pod both asked for
Agrees ==
    /\ (pc \notin {"idle", "primary"} /\ other.pc = "done") =>
          IF other.response.value = Null THEN response.value = Null
          ELSE /\ response.value # Null
               /\ SameElements(response.value.result, other.response.value.result)
    /\ \A k \in DOMAIN fan.answers \cap DOMAIN other.fan.answers :
         fan.answers[k] = other.fan.answers[k]

\* what stays of an invocation that has returned: what it was asked, what
\* the upstream told it, the tables it built and the text it gave back
Returned ==
    [NoOther EXCEPT !.pc = "done", !.tool = tool, !.params = params,
                    !.response = response, !.result = result, !.fan = fan]

\* the first invocation has returned; the client is about to call again
InvokeAgain ==
    /\ pc = "done"
    /\ other = NoOther
    /\ other' = Returned
    /\ Resume(NoOther)
    /\ UNCHANGED <<ext, srv>>

PageAgain ==
    /\ tool = "get-platform-tasks"
    /\ PrimaryCompletesWith(TwoTaskPages)
    /\ Agrees'

FindingAgain == FindingCompletes /\ Agrees'
RoundAgain == RoundCompletes /\ Agrees'
PodAgain == PodCompletes /\ Agrees'

\* get-platform-tasks called twice against an upstream that repeats itself
NextAgain ==
    \/ CallPlatformTasks
    \/ PageAgain
    \/ FindingAgain
    \/ RoundAgain
    \/ PodAgain
    \/ InvokeAgain
    \/ Finish

SpecAgain == Init /\ [][NextAgain]_vars

\* get-platform-tasks alone, on pages of up to MaxTasks tasks
NextTasks ==
    \/ CallPlatformTasks
    \/ TasksPageCompletes
    \/ FindingCompletes
    \/ RoundCompletes
    \/ PodCompletes
    \/ Finish

SpecTasks == Init /\ [][NextTasks]_vars

Next ==
    \/ GetRounds
    \/ GetFindings
    \/ GetNotifications
    \/ GetPrerequisites
    \/ GetBlocks
    \/ GetRoundAutomations
    \/ GetRoundArtifacts
    \/ GetRoundSummary
    \/ GetVulnerabilityTrends
    \/ GetReportTemplates
    \/ GetPlatformPods
    \/ GetPlatformTasks
    \/ GetTimeLogs
    \/ GetAllRounds
    \/ GetAllFindings
    \/ GetAllNotifications
    \/ ReadFullContext
    \/ CallFetchPageUtil
    \/ PrimaryCompletes
    \/ FindingCompletes
    \/ RoundCompletes
    \/ PodCompletes
    \/ Finish

Spec == Init /\ [][Next]_vars

(***************************************************************************)
(* Properties.                                                             *)
(***************************************************************************)
\* the query was built by a fetchPage call
Built == impl \in {"index", "util", "types"}

\* C1: makeOnSecurityRequest never propagates an exception: a network error,
\* a non-2xx status and an unparseable 2xx body all give null, and a 2xx
\* response with a parseable body gives the decoded value.
C1_RequestNeverThrows ==
    fetched.outcome # "none" =>
        /\ ~fetched.ret.threw
        /\ fetched.outcome # "ok" => fetched.ret.value = Null
        /\ fetched.outcome = "ok" => fetched.ret.value = fetched.body

\* a 2xx response whose body failed to parse was turned into null
C1_Witness ==
    /\ fetched.outcome = "bad_json"
    /\ fetched.ret = [threw |-> FALSE, value |-> Null]

\* C2: when the primary fetch of a tool returns null, the handler completes
\* normally with exactly one text item holding the tool's error message, and
\* no further upstream request is made.
C2_NullPrimaryGivesErrorText ==
    (tool \in AnyTool /\ response.got /\ response.value = Null) =>
        /\ pc = "done"
        /\ sent = 1
        /\ result.status = "returned"
        /\ Len(result.content) = 1
        /\ result.content[1].type = "text"
        /\ result.content[1].text.head = ErrorText(tool)
        /\ result.content[1].text.head \notin {Heading(tool, b) : b \in Bodies(tool) \ {Null}}

\* get-platform-tasks got null from a failed primary GET and has returned
C2_Witness ==
    /\ tool = "get-platform-tasks"
    /\ fetched.outcome = "http_error"
    /\ response.got
    /\ response.value = Null
    /\ result.status = "returned"

\* C3: a tool invocation never ends in an error: for every upstream outcome,
\* also a 2xx body that lacks links, result or estimate, the handler returns
\* a result whose content is text.
C3_ToolNeverFails ==
    (tool \in AnyTool /\ pc = "done") =>
        /\ result.status = "returned"
        /\ \A i \in 1..Len(result.content) : result.content[i].type = "text"

\* the filters a handler sets from its explicit parameters after it has
\* copied the caller's filters map: these replace a caller's entry under the
\* same key
ExplicitFilters(t, p) ==
    CASE t \in {"get-rounds", "get-all-rounds"} ->
           PutIf(<<>>, "round_type_id-eq", p["round_type"])
      [] t \in {"get-findings", "get-all-findings"} ->
           PutIf(PutIf(<<>>, "round_id-eq", p["round_id"]),
                 "round_type_id-eq", p["round_type"])
      [] t = "get-blocks" ->
           PutFlag(PutFlag(PutIf(<<>>, "round_type_id-eq", p["round_type_id"]),
                           "approved-eq", p["approved"]),
                   "automation_approved-eq", p["automation_approved"])
      [] OTHER -> <<>>

C5_Original ==
    (Built /\ tool \in AnyTool) =>
        Values(query, "page") =
          <<Param("page", IF params["page"].t = "undef" THEN "1" ELSE ToString(params["page"].n))>>

\* C5 amended: the primary fetch of a tool emits exactly one page parameter,
\* equal to the requested page for every non-zero requested page, and 1 when
\* the caller omits page or requests page 0.
C5_PageParameter ==
    (Built /\ tool \in AnyTool /\ pc = "primary") =>
        Values(query, "page") =
          <<Param("page", IF params["page"].t = "undef" \/ params["page"].n = 0
                          THEN "1" ELSE ToString(params["page"].n))>>

\* page 2 was requested and page=2 is sent
C5_Witness ==
    /\ tool \in AnyTool
    /\ pc = "primary"
    /\ params["page"] = Num(2)
    /\ Values(query, "page") = <<Param("page", "2")>>

\* C6: on the rounds path a supplied sort outside the allow-list is sent as
\* sort=id-asc, an allow-listed one unchanged, and the request is issued.
C6_RoundsSortAllowList ==
    (Built /\ args.basePath = "rounds" /\ Truthy(args.sort)) =>
        /\ sent >= 1
        /\ Values(query, "sort") =
             <<Param("sort", IF args.sort.s \in validRoundsSortFields
                             THEN args.sort.s ELSE "id-asc")>>

\* C7: on the rounds path no filter[end_date] is sent, the other filter
\* entries are, and the request is issued.
C7_RoundsEndDateDropped ==
    (Built /\ args.basePath = "rounds") =>
        /\ sent >= 1
        /\ Values(query, FilterName("end_date")) = <<>>
        /\ \A i \in 1..Len(args.filters) :
             args.filters[i].key # "end_date" =>
               Values(query, FilterName(args.filters[i].key)) # <<>>

\* C8: no tool sends a filter whose key is one of the prohibited date keys.
C8_NoProhibitedFilterKey ==
    tool \in AnyTool =>
        \A k \in PROHIBITED_FILTER_KEYS : Values(query, FilterName(k)) = <<>>

\* the optional arguments of the latest fetchPage call, by parameter name
OptionalArgs ==
    { <<"limit", args.limit>>, <<"sort", args.sort>>, <<"include", args.includes>>,
      <<"fields", args.fields>>, <<"search", args.search>> }

\* the value fetchPage is to send for an argument: the argument itself, but
\* id-asc where the rounds sort validation of the utility copy applies
Sent(nm, v) ==
    IF /\ nm = "sort"
       /\ impl = "util"
       /\ args.basePath = "rounds"
       /\ v.s \notin validRoundsSortFields
    THEN "id-asc"
    ELSE IF v.t = "num" THEN ToString(v.n) ELSE v.s

\* C9 as stated: limit, sort, include, fields and search are emitted only
\* when the argument is present, never empty, with the value supplied, and a
\* present argument is never omitted.
C9_Original ==
    Built =>
        \A a \in OptionalArgs :
            /\ (a[2].t # "undef") <=> (Values(query, a[1]) # <<>>)
            /\ \A i \in 1..Len(Values(query, a[1])) :
                 /\ Values(query, a[1])[i].value # ""
                 /\ Values(query, a[1])[i].value = Sent(a[1], a[2])

\* C9 amended: each of the five is emitted, once, exactly when the argument
\* is present and truthy; an argument that is absent, an empty string or a
\* limit of 0 is omitted; no value is empty.  The value emitted is the value
\* supplied, except under the rounds sort validation of the utility copy,
\* which sends sort=id-asc for a rounds sort outside its allow-list.
C9_OptionalParameters ==
    Built =>
        \A a \in OptionalArgs :
            /\ Truthy(a[2]) => Values(query, a[1]) = <<Param(a[1], Sent(a[1], a[2]))>>
            /\ ~Truthy(a[2]) => Values(query, a[1]) = <<>>
            /\ \A i \in 1..Len(Values(query, a[1])) : Values(query, a[1])[i].value # ""

\* limit 15 and an empty sort were supplied: limit=15 is sent, sort is not
C9_Witness ==
    /\ Built
    /\ args.limit = Num(15)
    /\ args.sort = Str("")
    /\ Values(query, "limit") = <<Param("limit", "15")>>
    /\ Values(query, "sort") = <<>>

\* C10: extractAssessmentTypes returns exactly the non-empty assessment names
\* of the targets with hidden === true, ascending and without duplicates; a
\* name found only on targets that are not hidden is left out, and a round
\* without nested targets gives the empty list.
C10_AssessmentTypes ==
    extracted.done =>
        LET ts == extracted.assessmentTypes
            hiddenNames == { round.targets[i].assessment_name :
                               i \in { j \in 1..Len(round.targets) :
                                         /\ round.targets[j].hidden = TRUE
                                         /\ round.targets[j].assessment_name # <<>> } }
        IN /\ Range(ts) = hiddenNames
           /\ \A i, j \in 1..Len(ts) : i < j => LexLess(ts[i], ts[j])
           /\ ~round.hasTargets => ts = <<>>

\* two hidden targets out of order and a visible target with a third name
C10_Witness ==
    /\ extracted.done
    /\ Len(extracted.assessmentTypes) = 2
    /\ \E i, j, k \in 1..Len(round.targets) :
         /\ i < j
         /\ round.targets[i].hidden
         /\ round.targets[j].hidden
         /\ LexLess(round.targets[j].assessment_name, round.targets[i].assessment_name)
         /\ ~round.targets[k].hidden
         /\ round.targets[k].assessment_name # <<>>
         /\ round.targets[k].assessment_name \notin Range(extracted.assessmentTypes)

\* a target that is shown: not hidden, with a value that is neither null nor empty
Kept(t) == t.hidden = FALSE /\ t.value # JsNull /\ t.value # Str("")

\* C11 as stated: extractActualTargets returns, in order, the projection of
\* exactly the targets with hidden === false and a value that is not null.
C11_Original ==
    extracted.done =>
        extracted.actualTargets =
            Map(SelectSeq(round.targets,
                          LAMBDA t : t.hidden = FALSE /\ t.value # JsNull),
                projectTarget)

\* C11: extractActualTargets returns, in original order, one { value, type,
\* notes } projection for each target with hidden === false and a value that
\* is neither null nor the empty string, and nothing else; type is the target
\* type name or "Unknown", notes is undefined when null; a round without
\* nested targets gives the empty list.
C11_ActualTargets ==
    extracted.done =>
        LET out == extracted.actualTargets
            kept == { i \in 1..Len(round.targets) : Kept(round.targets[i]) }
        IN /\ Len(out) = Cardinality(kept)
           /\ \E pos \in [1..Len(out) -> kept] :
                 /\ \A i, j \in 1..Len(out) : i < j => pos[i] < pos[j]
                 /\ \A i \in 1..Len(out) :
                       /\ out[i].value = round.targets[pos[i]].value
                       /\ out[i].type = (IF round.targets[pos[i]].typeName = Undef
                                         THEN Str("Unknown")
                                         ELSE round.targets[pos[i]].typeName)
                       /\ out[i].notes = (IF round.targets[pos[i]].notes = JsNull
                                          THEN Undef
                                          ELSE round.targets[pos[i]].notes)
           /\ \A i \in 1..Len(out) : out[i].value \notin {JsNull, Str("")}
           /\ ~round.hasTargets => out = <<>>

\* a hidden target between two visible ones: the visible ones are projected,
\* in their order, the first with the type "Unknown"
C11_Witness ==
    /\ extracted.done
    /\ Len(round.targets) = 3
    /\ round.targets[1].hidden = FALSE /\ Truthy(round.targets[1].value)
    /\ round.targets[2].hidden = TRUE /\ Truthy(round.targets[2].value)
    /\ round.targets[3].hidden = FALSE /\ Truthy(round.targets[3].value)
    /\ round.targets[1].typeName = Undef
    /\ round.targets[3].typeName # Undef
    /\ extracted.actualTargets =
         <<projectTarget(round.targets[1]), projectTarget(round.targets[3])>>

\* C12: extractTimeData returns estimated = the estimate's time (0 when the
\* estimate or its time is absent), logged = the sum of the hours of the nested
\* time logs with missing hours counted as 0 (0 without time logs), and
\* remaining = estimated - logged when that is positive and 0 otherwise; so
\* remaining is never negative.
C12_TimeData ==
    extracted.done =>
        LET td == extracted.timeData
            est == IF round.estimate = Undef THEN 0
                   ELSE IF Get(round.estimate.m, "time") = Undef THEN 0
                   ELSE Get(round.estimate.m, "time").n
            hrs(i) == IF round.logs[i] = Undef THEN 0 ELSE round.logs[i].n
            total[i \in 0..Len(round.logs)] ==
                IF i = 0 THEN 0 ELSE total[i - 1] + hrs(i)
        IN /\ td.estimated = est
           /\ td.logged = total[Len(round.logs)]
           /\ td.remaining >= 0
           /\ td.estimated >= td.logged => td.remaining = td.estimated - td.logged
           /\ td.estimated < td.logged => td.remaining = 0

\* more hours logged than estimated, one log without hours: remaining is 0
C12_Witness ==
    /\ extracted.done
    /\ extracted.timeData.estimated > 0
    /\ extracted.timeData.logged > extracted.timeData.estimated
    /\ extracted.timeData.remaining = 0
    /\ \E i \in 1..Len(round.logs) : round.logs[i] = Undef

\* the line of a formatted block with the given label
LineOf(lines, label) == lines[CHOOSE i \in 1..Len(lines) : lines[i].label = label]

\* the label under which formatBlock shows a free-text field
TextLabel(f) ==
    CASE f = "executive_description" -> "Executive Description"
      [] f = "executive_risk" -> "Executive Risk"
      [] f = "executive_recommendation" -> "Executive Recommendation"
      [] f = "description" -> "Description"
      [] f = "evidence" -> "Evidence"
      [] f = "recommendation" -> "Recommendation"

\* C13: formatBlock shows each free-text field longer than 200 characters as
\* exactly its first 200 characters followed by "...", and no free-text field
\* is shown with more than 203 characters.
C13_BlockTruncation ==
    (extracted.done /\ round.kind = "block") =>
        \A f \in TextFields :
            LET v == round.e[f]
                shown == LineOf(extracted.out.lines, TextLabel(f)).parts[1]
            IN /\ Len(shown) <= TextLimit + 3
               /\ (v.t = "str" /\ Len(v.s) > TextLimit) =>
                     /\ Len(shown) = TextLimit + 3
                     /\ \A i \in 1..TextLimit : SubSeq(shown, i, i) = SubSeq(v.s, i, i)
                     /\ SubSeq(shown, TextLimit + 1, TextLimit + 3) = "..."

\* a description one character over the cut is shown cut, next to a short one
C13_Witness ==
    /\ extracted.done
    /\ round.kind = "block"
    /\ Len(round.e["description"].s) = TextLimit + 1
    /\ Len(round.e["evidence"].s) = 1
    /\ Len(LineOf(extracted.out.lines, "Description").parts[1]) = TextLimit + 3
    /\ LineOf(extracted.out.lines, "Description").parts[1] # round.e["description"].s \o "..."

\* a link that is there: neither missing nor null
LinkPresent(resp, rel) == Member(resp["links"], rel) \notin {Undef, JsNull}

\* C14: formatPaginationInfo answers "Next Page Available" with Yes exactly
\* when links.next is present (not null) and with No otherwise, and likewise
\* "Previous Page Available" from links.previous, whatever page and
\* total_pages are.
C14_PaginationLinks ==
    (extracted.done /\ round.kind = "pagination") =>
        /\ ~extracted.out.threw
        /\ LineOf(extracted.out.lines, "Next Page Available").parts =
             <<IF LinkPresent(round.e, "next") THEN "Yes" ELSE "No">>
        /\ LineOf(extracted.out.lines, "Previous Page Available").parts =
             <<IF LinkPresent(round.e, "previous") THEN "Yes" ELSE "No">>

\* which fields each ${...} of each line of a formatter shows, line by line
Shown(kind) ==
    CASE kind = "round" ->
           << <<{"id"}>>, <<{"client_id"}>>, <<{"round_type_id"}>>, <<{"pod_id"}>>,
              <<{"estimate"}, {"estimate"}>>, <<{"start_date"}>>, <<{"end_date"}>>,
              <<{"started"}>>, <<{"finished"}>>, <<{"name"}>>,
              <<{"executive_summary_published"}>> >>
      [] kind = "finding" ->
           << <<{"id"}>>, <<{"display_id"}>>, <<{"name"}>>, <<{"client_id"}>>,
              <<{"round_id"}>>, <<{"cvss.score"}>>, <<{"cvss.severity_label"}>>,
              <<{"status.label"}, {"status.description"}>>, <<{"published"}>>,
              <<{"remediation_complexity"}>>, <<{"executive_description"}>>,
              <<{"executive_risk"}>>, <<{"executive_recommendation"}>>,
              <<{"description"}>>, <<{"evidence"}>>, <<{"recommendation"}>> >>
      [] kind = "notification" ->
           << <<{"heading"}>>, <<{"created_at"}>>, <<{"updated_at"}>> >>
      [] kind = "prerequisite" ->
           << <<{"id"}>>, <<{"round_id"}>>, <<{"name"}>>, <<{"description"}>>,
              <<{"required"}>>, <<{"status"}>>, <<{"created_at"}>>, <<{"updated_at"}>> >>
      [] kind = "block" ->
           << <<{"id"}>>, <<{"name"}>>, <<{"round_type_id"}>>, <<{"approved"}>>,
              <<{"automation_approved"}>>, <<{"used_count"}>>,
              <<{"remediation_complexity"}>>, <<{"ratings.cvss.score", "cvss.score"}>>,
              <<{"executive_description"}>>, <<{"executive_risk"}>>,
              <<{"executive_recommendation"}>>, <<{"description"}>>, <<{"evidence"}>>,
              <<{"recommendation"}>>, <<{"created_at"}>>, <<{"updated_at"}>> >>

\* the texts that stand for a missing value
Placeholders == {"N/A", "Unknown", "Not assigned", "No description"}

\* C15: formatRound, formatFinding, formatNotification, formatPrerequisite and
\* formatBlock return a text block without throwing for an entity whose
\* required fields are present and any of whose optional fields are absent;
\* every absent optional field is shown as a placeholder on its line, and the
\* block ends with the separator line.
C15_FormattersTolerateAbsence ==
    (/\ extracted.done
     /\ round.kind \in Kinds \ {"pagination"}
     /\ \A f \in DOMAIN round.e : round.e[f] = Undef => f \in OptionalFields(round.kind)) =>
        LET lines == extracted.out.lines
            sh == Shown(round.kind)
        IN /\ ~extracted.out.threw
           /\ Len(lines) > Len(sh)
           /\ lines[Len(lines)] = Separator
           /\ \A i \in 1..Len(sh) : \A j \in 1..Len(sh[i]) :
                (\A f \in sh[i][j] : round.e[f] = Undef) =>
                    lines[i].parts[j] \in Placeholders

\* C17: the primary request of get-platform-tasks carries exactly one
\* filter[completed-eq], 0 when completed is omitted or false and 1 when it is
\* true; filter[snoozed-eq] is there, once, only when snoozed is supplied.
C17_TasksCompletedFilter ==
    (tool = "get-platform-tasks" /\ pc = "primary") =>
        /\ Values(query, FilterName("completed-eq")) =
             <<Param(FilterName("completed-eq"),
                     IF params["completed"] = Bool(TRUE) THEN "1" ELSE "0")>>
        /\ Values(query, FilterName("snoozed-eq")) =
             (IF params["snoozed"] = Undef THEN <<>>
              ELSE <<Param(FilterName("snoozed-eq"),
                           IF params["snoozed"] = Bool(TRUE) THEN "1" ELSE "0")>>)

\* completed omitted, snoozed false: completed-eq=0 and snoozed-eq=0 are sent
C17_Witness ==
    /\ tool = "get-platform-tasks"
    /\ pc = "primary"
    /\ params["completed"] = Undef
    /\ params["snoozed"] = Bool(FALSE)
    /\ Values(query, FilterName("completed-eq")) = <<Param(FilterName("completed-eq"), "0")>>
    /\ Values(query, FilterName("snoozed-eq")) = <<Param(FilterName("snoozed-eq"), "0")>>

\* C18: get-vulnerability-trends sends filter[used_count-mte] equal to the
\* min_usage_count argument for every supplied value, 0 included, and 5 when
\* the argument is omitted; it always requests page 1 sorted by
\* used_count-desc.
C18_TrendsMinUsage ==
    (tool = "get-vulnerability-trends" /\ pc = "primary") =>
        /\ Values(query, FilterName("used_count-mte")) =
             <<Param(FilterName("used_count-mte"),
                     IF params["min_usage_count"] = Undef THEN "5"
                     ELSE ToString(params["min_usage_count"].n))>>
        /\ Values(query, "page") = <<Param("page", "1")>>
        /\ Values(query, "sort") = <<Param("sort", "used_count-desc")>>

\* what the lookup of loop ph for id gave the handler, null when it was not made
Answer(ph, id) ==
    IF <<ph, id>> \in DOMAIN fan.answers THEN fan.answers[<<ph, id>>] ELSE Null

\* the pod line a task is due, from the answers to the lookups on its own
\* chain (finding -> round -> pod) and from nothing else
DuePodInfo(u) ==
    LET roundId == IF u.tests # 0 THEN u.tests
                   ELSE IF u.findings # 0
                     THEN (IF Answer("finding", u.findings) # Null
                           THEN Answer("finding", u.findings).round_id ELSE 0)
                   ELSE u.prereq
        podId == IF roundId # 0 /\ Answer("round", roundId) # Null
                 THEN Answer("round", roundId).pod_id ELSE 0
        pod == Answer("pod", podId)
    IN IF podId = 0 THEN "Pod info not available"
       ELSE IF pod # Null /\ pod.hasResult /\ Len(pod.result) > 0
         THEN "name of pod " \o ToString(podId)
       ELSE "Pod " \o ToString(podId)

\* where the line of task i of a task list stands in the text: tasks of one
\* type name stand together, the names in the order of their first task, the
\* tasks of a name in list order
FirstOfType(tasks, i) ==
    CHOOSE j \in 1..i :
        /\ taskTypeName(tasks[j].type) = taskTypeName(tasks[i].type)
        /\ \A k \in 1..(j - 1) : taskTypeName(tasks[k].type) # taskTypeName(tasks[i].type)

Ahead(tasks, j, i) ==
    \/ FirstOfType(tasks, j) < FirstOfType(tasks, i)
    \/ FirstOfType(tasks, j) = FirstOfType(tasks, i) /\ j < i

Place(tasks, i) == 1 + Cardinality({j \in 1..Len(tasks) : Ahead(tasks, j, i)})

\* C16: when get-platform-tasks got its page of tasks, it returns the full
\* task list whatever the secondary lookups answered, and the pod line of each
\* task follows from the lookups on its own chain alone: "Pod info not
\* available" when its finding or round lookup failed, "Pod <id>" when only
\* its pod lookup failed, the pod otherwise; lookups of other ids do not
\* change it.
C16_LookupFailureIsLocal ==
    (/\ tool = "get-platform-tasks"
     /\ pc = "done"
     /\ response.value # Null
     /\ response.value.hasResult) =>
        /\ result.status = "returned"
        /\ Len(result.content) = 1
        /\ LET lines == result.content[1].text.lines
               tasks == response.value.result
           IN /\ Len(lines) = Len(tasks)
              /\ \A i \in 1..Len(tasks) : lines[Place(tasks, i)] = DuePodInfo(tasks[i].url)

\* two tasks on different rounds: the lookup of the first round failed, the
\* second round resolved to its pod
C16_Witness ==
    /\ tool = "get-platform-tasks"
    /\ pc = "done"
    /\ result.status = "returned"
    /\ Len(fan.tasks) = 2
    /\ fan.tasks[1].url.tests = 1
    /\ fan.tasks[2].url.prereq = 2
    /\ Answer("round", 1) = Null
    /\ Answer("round", 2) # Null
    /\ result.content[1].text.lines = <<"Pod info not available", "name of pod 1">>

\* C20: within one get-platform-tasks invocation the requests issued exceed
\* the requests completed by at most one, and by exactly one while the
\* handler awaits a fetch: a lookup is issued only after the fetch before it
\* has completed.
C20_OneRequestOutstanding ==
    tool = "get-platform-tasks" =>
        /\ sent - fetched.n \in {0, 1}
        /\ sent - fetched.n = 1 <=> pc \in {"primary", "finding", "round", "pod"}

\* the second of two finding lookups is outstanding, the first has completed
C20_Witness ==
    /\ tool = "get-platform-tasks"
    /\ pc = "finding"
    /\ Len(fan.findingIds) = 2
    /\ fan.cur = 2
    /\ sent = 3
    /\ fetched.n = 2

\* a step in which a handler took up a request that was not the latest one
\* answered: no suspended handler has returned in it
Arrives == reply' # reply /\ BagCardinality(waiting') >= BagCardinality(waiting)

\* C19: a POST, GET or DELETE on /mcp whose mcp-session-id header is
\* missing or is not a key of the session table is answered with 400 and
\* leaves the table as it was, except a POST without session id whose body is
\* an initialize request; a POST with an unknown session id gets 400 even when
\* its body is an initialize request.
C19_InvalidSessionRejected ==
    [][ (/\ Arrives
         /\ reply'.sid \notin transports
         /\ ~(reply'.method = "POST" /\ reply'.sid = "" /\ reply'.body = "initialize")) =>
            /\ reply'.status = "400"
            /\ transports' = transports ]_vars

\* the GETs of the log that ended without a usable answer
Failed(i) == log[i].outcome \in Outcomes \ {"ok"}

SameUrl(i, j) == log[i].path = log[j].path /\ log[i].query = log[j].query

\* the calls of makeOnSecurityRequest the running invocation has made: those
\* that have returned and the one it awaits
Called == fetched.n + (IF pc \in {"primary", "finding", "round", "pod"} THEN 1 ELSE 0)

\* C22: No operation is retried: each call of makeOnSecurityRequest issues
\* exactly one GET, and after a failed GET the same URL is not requested
\* again within that tool invocation.
C22_NoRetry ==
    /\ Len(log) = Called
    /\ \A i, j \in 1..Len(log) : i < j /\ Failed(i) => ~SameUrl(i, j)

\* two tasks named one round, whose lookup failed, and the invocation went
\* on to its end without asking for it again
C22_Witness ==
    /\ pc = "done"
    /\ Len(fan.tasks) = 2
    /\ fan.tasks[1].url.tests # 0
    /\ fan.tasks[2].url.prereq = fan.tasks[1].url.tests
    /\ \E i \in 1..Len(log) :
         log[i].kind = "round" /\ log[i].id = fan.tasks[1].url.tests /\ Failed(i)

\* the place of a lookup loop in the handler
Rank(kind) ==
    CASE kind = "primary" -> 0
      [] kind = "finding" -> 1
      [] kind = "round" -> 2
      [] kind = "pod" -> 3

\* the ids the log holds a lookup of the given kind for
LookedUp(kind) == { log[i].id : i \in {j \in 1..Len(log) : log[j].kind = kind} }

\* the round ids that successful finding lookups of the invocation returned
LearnedRounds ==
    { fan.answers[k].round_id :
        k \in {a \in DOMAIN fan.answers :
                 a[1] = "finding" /\ fan.answers[a] # Null /\ fan.answers[a].round_id # 0} }

\* the pod ids that successful round lookups of the invocation returned
ReturnedPods ==
    { fan.answers[k].pod_id :
        k \in {a \in DOMAIN fan.answers :
                 a[1] = "round" /\ fan.answers[a] # Null /\ fan.answers[a].pod_id # 0} }

\* C28: The secondary lookups of get-platform-tasks run in three ordered
\* phases after the primary task page has been fetched: every finding lookup
\* completes before the first round lookup, and every round lookup completes
\* before the first pod lookup; a round id learned from a successful finding
\* lookup is looked up in the round phase, and a pod id is looked up only if
\* some round lookup returned it.
C28_OrderedPhases ==
    tool = "get-platform-tasks" =>
        /\ \A i \in 1..Len(log) : (log[i].kind = "primary") = (i = 1)
        /\ \A i, j \in 1..Len(log) :
             i < j => /\ Rank(log[i].kind) <= Rank(log[j].kind)
                      /\ log[i].outcome # "pending"
        /\ pc \in {"pod", "done"} => LearnedRounds \subseteq LookedUp("round")
        /\ LookedUp("pod") \subseteq ReturnedPods

\* a finding lookup gave a round, the round lookup a pod, and the pod was
\* looked up: one lookup of each phase, in that order
C28_Witness ==
    /\ pc = "done"
    /\ Len(log) = 4
    /\ log[2].kind = "finding" /\ log[3].kind = "round" /\ log[4].kind = "pod"
    /\ log[3].id \in LearnedRounds
    /\ log[4].id \in ReturnedPods

\* the round a task resolves to when the list is rendered (0: none)
ResolvedRound(u) ==
    IF u.tests # 0 THEN u.tests
    ELSE IF u.findings # 0 THEN Lookup(fan.findingToRoundMap, u.findings, 0)
    ELSE u.prereq

\* the ids the tasks of the page name in their urls
NamedFindings ==
    { fan.tasks[i].url.findings :
        i \in {j \in 1..Len(fan.tasks) :
                 fan.tasks[j].url.tests = 0 /\ fan.tasks[j].url.findings # 0} }

NamedRounds ==
    { fan.tasks[i].url.tests :
        i \in {j \in 1..Len(fan.tasks) : fan.tasks[j].url.tests # 0} }
    \cup { fan.tasks[i].url.prereq :
             i \in {j \in 1..Len(fan.tasks) :
                      /\ fan.tasks[j].url.tests = 0
                      /\ fan.tasks[j].url.findings = 0
                      /\ fan.tasks[j].url.prereq # 0} }

\* how many lookups of the kind the log holds for the id
Lookups(kind, id) ==
    Cardinality({i \in 1..Len(log) : log[i].kind = kind /\ log[i].id = id})

\* C29: In one get-platform-tasks invocation each distinct finding id, round
\* id and pod id is looked up exactly once however many tasks refer to it,
\* and when the task list is rendered every round id that a task resolves to
\* (directly from its URL or through its finding) is a key of the
\* round-to-pod table and every non-null pod id in that table is a key of
\* the pod table, so rendering never reads an id that was not looked up.
C29_EachIdOnce ==
    tool = "get-platform-tasks" /\ pc = "done" /\ fan.tasks # <<>> =>
        /\ \A id \in NamedFindings : Lookups("finding", id) = 1
        /\ \A id \in NamedRounds \cup LearnedRounds : Lookups("round", id) = 1
        /\ \A id \in ReturnedPods : Lookups("pod", id) = 1
        /\ \A i \in 1..Len(fan.tasks) :
             ResolvedRound(fan.tasks[i].url) # 0 =>
                 ResolvedRound(fan.tasks[i].url) \in DOMAIN fan.roundIdToPodMap
        /\ \A r \in DOMAIN fan.roundIdToPodMap :
             fan.roundIdToPodMap[r] # 0 => fan.roundIdToPodMap[r] \in DOMAIN fan.podCache

\* two rounds, both named by tasks, turned out to belong to one pod, which
\* was looked up once and found
C29_Witness ==
    /\ pc = "done"
    /\ Len(fan.tasks) = 2
    /\ fan.tasks[1].url.tests # 0
    /\ fan.tasks[2].url.tests # 0
    /\ fan.tasks[1].url.tests # fan.tasks[2].url.tests
    /\ \E p \in DOMAIN fan.podCache :
         /\ fan.podCache[p]
         /\ fan.roundIdToPodMap[fan.tasks[1].url.tests] = p
         /\ fan.roundIdToPodMap[fan.tasks[2].url.tests] = p

\* C25: get-prerequisites always queries a single round: the emitted
\* filter[round_id-eq] equals the required round_id argument for every
\* content of the optional filters map, including a filters map that itself
\* contains the key round_id-eq.
C25_PrerequisitesRound ==
    (tool = "get-prerequisites" /\ pc = "primary") =>
        Values(query, FilterName("round_id-eq"))
            = <<Param(FilterName("round_id-eq"), toString(params["round_id"]))>>

\* where the entry called nm stands in a query
Position(q, nm) == CHOOSE i \in 1..Len(q) : q[i].name = nm

\* the utility fetchPage drops this entry of the filter map
Dropped(basePath, e) == basePath = "rounds" /\ e.key = "end_date"

\* C26: fetchPage emits exactly one filter[key] parameter per entry of the
\* filter map, in the map's order, and drops an entry if and only if the
\* resource is rounds and the key is exactly end_date; entries with keys such
\* as end_date-lte on rounds, and end_date on any other resource, are emitted;
\* the one GET the call issues carries that query.
C26_FilterEmission ==
    extracted.done =>
        LET fs == round.filters
            q == extracted.query
        IN /\ \A i \in 1..Len(fs) :
                Len(Values(q, FilterName(fs[i].key)))
                    = IF Dropped(round.basePath, fs[i]) THEN 0 ELSE 1
           /\ \A i, j \in 1..Len(fs) :
                (i < j /\ ~Dropped(round.basePath, fs[i]) /\ ~Dropped(round.basePath, fs[j]))
                    => Position(q, FilterName(fs[i].key)) < Position(q, FilterName(fs[j].key))
           /\ Len(q) = 1 + Cardinality({i \in 1..Len(fs) : ~Dropped(round.basePath, fs[i])})
           /\ sent = 1
           /\ log[1].path = round.basePath
           /\ log[1].query = q

\* on findings, end_date is emitted, after the entry that stands before it
\* in the map
C26_Witness ==
    /\ extracted.done
    /\ round.basePath = "findings"
    /\ Len(round.filters) = 2
    /\ round.filters[1].key = "end_date-lte"
    /\ round.filters[2].key = "end_date"
    /\ Len(extracted.query) = 3
    /\ extracted.query[3].name = FilterName("end_date")

\* C27: formatBlock appends "..." to every non-empty long free-text field
\* regardless of its length: a field of length L with 1 <= L <= 200 is
\* rendered as all L characters followed by "...", and an absent or empty
\* field is rendered as "N/A" with no ellipsis.
C27_BlockEllipsis ==
    (extracted.done /\ round.kind = "block") =>
        \A f \in TextFields :
            LET v == round.e[f]
                shown == LineOf(extracted.out.lines, TextLabel(f)).parts[1]
            IN /\ (v.t = "undef" \/ (v.t = "str" /\ v.s = "")) => shown = "N/A"
               /\ (v.t = "str" /\ 1 <= Len(v.s) /\ Len(v.s) <= TextLimit) =>
                     shown = v.s \o "..."

\* a one-character description is shown with the ellipsis, next to an empty
\* evidence shown as N/A
C27_Witness ==
    /\ extracted.done
    /\ round.kind = "block"
    /\ Len(round.e["description"].s) = 1
    /\ round.e["evidence"] = Str("")
    /\ Len(LineOf(extracted.out.lines, "Description").parts[1]) = 4
    /\ LineOf(extracted.out.lines, "Evidence").parts[1] = "N/A"

\* an absent free-text field is shown as N/A
C27_Absent ==
    /\ extracted.done
    /\ round.kind = "block"
    /\ round.e["description"] = Undef
    /\ LineOf(extracted.out.lines, "Description").parts[1] = "N/A"

\* a step that stores a session: the transport created for an initialize
\* POST without a session id handles that request, and its
\* onsessioninitialized callback, which had not run, stores the transport
\* under the id it generates; the handler goes on waiting or returns
Opened ==
    /\ \E at \in {"connect", "handle"} :
         /\ BagIn(Initializing(at, FALSE), waiting)
         /\ waiting' \in {Leave(waiting, Initializing(at, FALSE)),
                          Enter(Leave(waiting, Initializing(at, FALSE)),
                                Initializing("handle", TRUE))}
    /\ generated' = generated + 1
    /\ SessionId(generated') \notin transports
    /\ transports' = transports \cup {SessionId(generated')}
    /\ shutdown' = shutdown

\* a step in which the transport of a session closed while it handled a
\* DELETE on that session, and its onclose handler removed that session, and
\* no other: as the DELETE arrived, or as its handler returned
ClosedByOnclose ==
    \E sid \in transports :
        /\ \/ /\ reply' = Reply("DELETE", sid, "malformed", "transport")
              /\ waiting' = Enter(waiting, Handler("DELETE", sid, "malformed", "handle", TRUE))
           \/ /\ BagIn(Handler("DELETE", sid, "malformed", "handle", FALSE), waiting)
              /\ waiting' = Leave(waiting, Handler("DELETE", sid, "malformed", "handle", FALSE))
        /\ generated' = generated
        /\ transports' = transports \ {sid}
        /\ shutdown' = shutdown

\* a step of the loop of close() that removed the session whose transport
\* it closes
ClosedByShutdown ==
    /\ shutdown.phase = "closing"
    /\ waiting' = waiting
    /\ \E sid \in shutdown.todo :
         /\ transports' = transports \ {sid}
         /\ sid \in {shutdown.closing, shutdown'.closing}

\* C24: The HTTP session table is mutated only on session open and close: an
\* entry is added only by the onsessioninitialized callback of a transport
\* created for an initialize POST, keyed by that transport's session id, and
\* is removed only by that transport's onclose handler or by server
\* shutdown; handling of tool calls, GET streams, DELETE requests and
\* rejected requests adds and removes no entry.  Amended: handling of tool
\* calls, GET streams and rejected requests adds and removes no entry;
\* handling of a DELETE on a session adds no entry and removes at most the
\* entry of that session, through the onclose handler of its transport.
C24_TableFrame ==
    [][ /\ transports' # transports => Opened \/ ClosedByOnclose \/ ClosedByShutdown
        /\ (reply' # reply /\ (\/ reply'.status = "400"
                                \/ reply'.method = "GET"
                                \/ (reply'.method = "POST" /\ reply'.sid # ""))) =>
             transports' = transports
        /\ (reply' # reply /\ reply'.method = "DELETE") =>
             transports' \in {transports, transports \ {reply'.sid}} ]_vars

\* C24 as stated: the table changes only when a session opens or closes, and
\* a step in which the shell answers a rejected request, a GET, a POST on a
\* session or a DELETE leaves the table as it was.
C24_Original ==
    [][ /\ transports' # transports => Opened \/ ClosedByOnclose \/ ClosedByShutdown
        /\ (reply' # reply /\ (\/ reply'.status = "400"
                                \/ reply'.method = "GET"
                                \/ reply'.method = "DELETE"
                                \/ (reply'.method = "POST" /\ reply'.sid # ""))) =>
             transports' = transports ]_vars

\* of two open sessions a DELETE closed one, and the other is still there
C24_Witness ==
    /\ reply = Reply("DELETE", SessionId(1), "malformed", "transport")
    /\ generated = 2
    /\ transports = {SessionId(2)}
    /\ waiting = EmptyBag
    /\ shutdown.phase = "running"

\* how the loop of close() fared with a session it reached
Visited(outcome) ==
    { shutdown.visited[i].sid :
        i \in {j \in 1..Len(shutdown.visited) : shutdown.visited[j].outcome = outcome} }

\* the loop of close() is over and close() returns
Returning ==
    /\ shutdown.phase = "closing"
    /\ shutdown.closing = ""
    /\ shutdown.todo = {}

\* C30: Shutdown of the HTTP server (close) attempts to close every
\* transport in the session table: a transport whose close fails does not
\* prevent the remaining transports from being closed, and when close
\* returns, every session whose transport closed without error is absent
\* from the session table, so that a session still in the table is one whose
\* transport close() tried to close.  (That close() returns at all is
\* CloseTerminates below.)
C30_ShutdownClosesAll ==
    Returning =>
        /\ Visited("closed") \cup Visited("throws") \cup Visited("gone") = shutdown.keys
        /\ Visited("closed") \cap transports = {}
        /\ transports \subseteq Visited("closed") \cup Visited("throws")

\* every transport.close() that close() awaits settles, and the loop of
\* close() is resumed and runs on
SpecHttpFair ==
    SpecHttp /\ WF_vars(CloseTransport) /\ WF_vars(CloseSettles) /\ WF_vars(CloseReturns)

\* close() terminates: once called, it returns
CloseTerminates == (shutdown.phase = "closing") ~> (shutdown.phase = "closed")

\* the pod lines of a rendered task list
PodLines(res) == res.content[1].text.lines

\* C21: get-platform-tasks is idempotent with respect to its derived
\* mappings: two invocations with the same arguments against an upstream
\* that returns the same responses for the same URLs produce the same
\* finding-to-round, round-to-pod and pod-detail mappings and the same output
\* text, independently of the order in which ids appear in the task list.
C21_Idempotent ==
    (/\ pc = "done" /\ other.pc = "done"
     /\ tool = "get-platform-tasks" /\ other.tool = "get-platform-tasks"
     /\ params = other.params
     /\ Agrees) =>
        /\ fan.findingToRoundMap = other.fan.findingToRoundMap
        /\ fan.roundIdToPodMap = other.fan.roundIdToPodMap
        /\ fan.podCache = other.fan.podCache
        /\ fan.tasks = other.fan.tasks => result = other.result
        /\ result.status = other.result.status
        /\ \A i \in 1..Len(fan.tasks) : \A j \in 1..Len(other.fan.tasks) :
             fan.tasks[i] = other.fan.tasks[j] =>
                 PodLines(result)[Place(fan.tasks, i)] =
                   PodLines(other.result)[Place(other.fan.tasks, j)]

\* the second invocation got the two tasks of the first in the other order,
\* a finding ahead of the round it belongs to, and built the same tables
C21_Witness ==
    /\ pc = "done" /\ other.pc = "done"
    /\ Len(fan.tasks) = 2
    /\ fan.tasks[1] = other.fan.tasks[2]
    /\ fan.tasks[2] = other.fan.tasks[1]
    /\ fan.tasks[1].url.findings # 0
    /\ fan.tasks[2].url.tests # 0
    /\ fan.findingToRoundMap[fan.tasks[1].url.findings] \notin {0, fan.tasks[2].url.tests}
    /\ \E p \in DOMAIN fan.podCache : fan.podCache[p]
    /\ fan.podCache = other.fan.podCache

\* C23: Tool invocations share no mutable state: for any sequence or
\* interleaving (at their await points) of tool invocations, each
\* invocation's outbound requests and returned text depend only on its own
\* arguments, the process configuration and the upstream responses it
\* receives; in particular the pod/round/finding lookup tables of
\* get-platform-tasks are rebuilt on every invocation and nothing fetched by
\* one invocation is reused by another.
C23_NoSharedState ==
    (tool = "get-platform-tasks" /\ pc \notin {"idle", "primary"} /\ response.value # Null) =>
        /\ LookedUp("finding") \subseteq NamedFindings
        /\ LookedUp("round") \subseteq NamedRounds \cup LearnedRounds
        /\ LookedUp("pod") \subseteq ReturnedPods
        /\ DOMAIN fan.findingToRoundMap \subseteq LookedUp("finding")
        /\ DOMAIN fan.roundIdToPodMap \subseteq LookedUp("round")
        /\ DOMAIN fan.podCache \subseteq LookedUp("pod")
        /\ DOMAIN fan.answers = { <<log[i].kind, log[i].id>> :
                                    i \in {j \in 2..Len(log) : log[j].outcome # "pending"} }
        /\ pc = "done" =>
              /\ NamedFindings \subseteq LookedUp("finding")
              /\ NamedRounds \cup LearnedRounds \subseteq LookedUp("round")
              /\ ReturnedPods \subseteq LookedUp("pod")
              /\ result = TextResult(Heading("get-platform-tasks", response.value),
                                     [i \in 1..Len(fan.tasks) |->
                                        DuePodInfo(fan.tasks[i].url)])

\* an invocation returned the pod of its task while another, which had
\* looked up a different round and pod, waited at an await
C23_Witness ==
    /\ pc = "done"
    /\ other.pc = "pod"
    /\ Len(fan.tasks) = 1
    /\ fan.tasks[1].url.tests # 0
    /\ other.fan.tasks[1].url.tests \notin {0, fan.tasks[1].url.tests}
    /\ \E p \in DOMAIN fan.podCache : fan.podCache[p] /\ p \notin Range(other.fan.podIds)

====
